---- MODULE Spec2Model ----
(***************************************************************************)
(* Diet-Tracker: the compute core beneath the Streamlit pages.             *)
(*                                                                         *)
(*   NutritionAnalyzer  (src/nutrition_analyzer.py)                        *)
(*   FoodRecommender    (src/food_recommender.py)                          *)
(*   DataProcessor      (src/data_processor.py)                            *)
(*                                                                         *)
(* Conventions of the model                                                *)
(*  - Amounts (nutrient values, targets) are Python floats in the source.  *)
(*    Here they are fixed-point integers with three decimals: 1000 stands  *)
(*    for 1.0, so 'protein': 150 is 150000 and 3.33 is 3330.               *)
(*  - Quotients (percentage, scores) are exact fractions <<n, d>> with     *)
(*    d > 0 in lowest terms.                                               *)
(*  - A Python str is a sequence of one-character strings.                 *)
(*  - A dict is a function; a DataFrame is a record of its column set and  *)
(*    its sequence of rows, the position in the sequence standing for the  *)
(*    index label that pandas carries through filters and sorts.           *)
(*  - None is the empty sequence <<>>.                                     *)
(***************************************************************************)
EXTENDS Integers, Sequences, FiniteSets, TLC

VARIABLES
    food_data,   \* st.session_state.food_data: the food table handed to the calls
    daily_log,   \* st.session_state.daily_log: the list of log entries
    call,        \* the last compute call or user action and its arguments
    result,      \* what that call returned
    st_error,    \* whether that call reported a caught exception through st.error
    app,         \* the class running the session: "main" is DietTrackerApp,
                 \* "enhanced" is EnhancedDietTrackerApp
    clock,       \* datetime.now(), in ticks; it moves on with every Add
    goals        \* st.session_state.calories_goal and .protein_goal: the sliders

vars == <<food_data, daily_log, call, result, st_error, app, clock, goals>>

None == <<>>

\* the values the two goal sliders start at (lines 578-579)
default_goals == [calories_goal |-> 2000000, protein_goal |-> 150000]

NoCall == [fn |-> "none"]

(***************************************************************************)
(* Exact fractions                                                         *)
(***************************************************************************)
Abs(x) == IF x < 0 THEN -x ELSE x

RECURSIVE GCD(_, _)
GCD(a, b) == IF b = 0 THEN a ELSE GCD(b, a % b)

\* n/d in lowest terms with a positive denominator (d # 0)
Frac(n, d) ==
    LET g == GCD(Abs(n), Abs(d))
        s == IF d < 0 THEN -1 ELSE 1
    IN  <<(s * n) \div g, (s * d) \div g>>

FracInt(k) == <<k, 1>>

FracLess(p, q) == p[1] * q[2] < q[1] * p[2]

\* over the least common denominator, to keep the numbers small
FracAdd(p, q) ==
    LET g == GCD(p[2], q[2])
    IN  Frac(p[1] * (q[2] \div g) + q[1] * (p[2] \div g), (p[2] \div g) * q[2])

\* p * k for an integer k; reduces before multiplying to keep numbers small
FracTimes(p, k) ==
    LET g == GCD(Abs(k), p[2])
    IN  Frac(p[1] * (k \div g), p[2] \div g)

\* p / k for an integer k # 0
FracOver(p, k) ==
    LET g == GCD(Abs(p[1]), Abs(k))
    IN  IF g = 0 THEN <<0, 1>> ELSE Frac(p[1] \div g, p[2] * (k \div g))

\* k / p for an integer k and a fraction p # 0
IntOverFrac(k, p) == Frac(k * p[2], p[1])

FracMin(p, q) == IF FracLess(q, p) THEN q ELSE p

Zero == FracInt(0)

One == FracInt(1)

(***************************************************************************)
(* NutritionAnalyzer                                                       *)
(***************************************************************************)
\* the keys of the totals dict, in the order the literal lists them
TotalKeys ==
    <<"calories", "protein", "carbs", "fat", "fiber",
      "sugar", "sodium", "calcium", "iron", "vitamin_c">>

Range(s) == {s[i] : i \in DOMAIN s}

daily_targets ==
    [calories |-> 2000000, protein |-> 150000, carbs |-> 250000, fat |-> 65000,
     fiber |-> 25000, sugar |-> 50000, sodium |-> 2300000, calcium |-> 1000000,
     iron |-> 18000, vitamin_c |-> 90000]

\* (min, max) as a multiple of the target, held here times 100 (0.8 -> 80);
\* inf marks float('inf') as the upper bound, max is then unused
acceptable_ranges ==
    [calories  |-> [min |-> 80, max |-> 120, inf |-> FALSE],
     protein   |-> [min |-> 80, max |-> 200, inf |-> FALSE],
     carbs     |-> [min |-> 45, max |-> 130, inf |-> FALSE],
     fat       |-> [min |-> 70, max |-> 150, inf |-> FALSE],
     fiber     |-> [min |-> 80, max |-> 0,   inf |-> TRUE],
     sodium    |-> [min |-> 0,  max |-> 100, inf |-> FALSE],
     calcium   |-> [min |-> 80, max |-> 0,   inf |-> TRUE],
     iron      |-> [min |-> 80, max |-> 0,   inf |-> TRUE],
     vitamin_c |-> [min |-> 80, max |-> 0,   inf |-> TRUE]]

\* self.acceptable_ranges.get(nutrient, (0.8, 1.2))
RangeOf(nutrient) ==
    IF nutrient \in DOMAIN acceptable_ranges
    THEN acceptable_ranges[nutrient]
    ELSE [min |-> 80, max |-> 120, inf |-> FALSE]

unit_map ==
    [calories |-> "kcal", protein |-> "g", carbs |-> "g", fat |-> "g",
     fiber |-> "g", sugar |-> "g", sodium |-> "mg", calcium |-> "mg",
     iron |-> "mg", vitamin_c |-> "mg"]

AnalyzerUnit(nutrient) ==
    IF nutrient \in DOMAIN unit_map THEN unit_map[nutrient] ELSE ""

\* entry.get(nutrient, 0.0)
EntryGet(entry, nutrient) ==
    IF nutrient \in DOMAIN entry THEN entry[nutrient] ELSE 0

Digits == <<"0", "1", "2", "3", "4", "5", "6", "7", "8", "9">>

\* a value the float arithmetic of the analyzer accepts: an int or a float,
\* told from a str by its printed form, which starts with a digit or a sign
IsNumber(v) == Head(ToString(v)) \in Range(Digits) \cup {"-"}

RECURSIVE SumField(_, _)
SumField(log, nutrient) ==
    IF log = <<>> THEN 0
    ELSE EntryGet(Head(log), nutrient) + SumField(Tail(log), nutrient)

ZeroTotals == [n \in Range(TotalKeys) |-> 0]

\* the += of line 63 raises TypeError on a field that is not a number
TotalsRaises(log) ==
    \E i \in DOMAIN log : \E n \in Range(TotalKeys) :
        n \in DOMAIN log[i] /\ ~IsNumber(log[i][n])

\* a plausible slip: = where line 63 has +=, so the last entry's value stays
calculate_totals_assigning(log) ==
    [n \in Range(TotalKeys) |->
        IF log = <<>> THEN 0 ELSE EntryGet(log[Len(log)], n)]

\* lines 47-69
calculate_totals(log) ==
    IF TotalsRaises(log) THEN ZeroTotals
    ELSE [n \in Range(TotalKeys) |-> SumField(log, n)]

\* targets = custom_targets if custom_targets else self.daily_targets
\* (None and the empty dict are both falsy)
TargetsFor(custom_targets) ==
    IF DOMAIN custom_targets = {} THEN daily_targets ELSE custom_targets

\* a plausible slip: the zero-target guard of line 100 left out
SkippedWithoutZeroGuard(targets, nutrient) == nutrient \notin DOMAIN targets

\* lines 96-101: the two `continue`s of the loop
Skipped(targets, nutrient) ==
    nutrient \notin DOMAIN targets \/ targets[nutrient] = 0

\* percentage = (current_value / target_value) * 100, for target # 0
Percentage(current, target) == FracTimes(Frac(current, target), 100)

\* a plausible slip: <= where line 116 has <
BucketInclusiveMin(nutrient, current, target) ==
    LET percentage == Percentage(current, target)
        r == RangeOf(nutrient)
    IN  IF ~FracLess(FracInt(r.min), percentage) THEN "deficiencies"
        ELSE IF ~r.inf /\ FracLess(FracInt(r.max), percentage) THEN "excesses"
        ELSE "within_range"

\* a plausible slip: the elif branch of line 119 filing under 'deficiencies'
BucketExcessMisfiled(nutrient, current, target) ==
    LET percentage == Percentage(current, target)
        r == RangeOf(nutrient)
    IN  IF FracLess(percentage, FracInt(r.min)) THEN "deficiencies"
        ELSE IF ~r.inf /\ FracLess(FracInt(r.max), percentage) THEN "deficiencies"
        ELSE "within_range"

\* lines 104-124: which of the three dicts the nutrient is filed under
Bucket(nutrient, current, target) ==
    LET percentage == Percentage(current, target)
        r == RangeOf(nutrient)
    IN  IF FracLess(percentage, FracInt(r.min)) THEN "deficiencies"
        ELSE IF ~r.inf /\ FracLess(FracInt(r.max), percentage) THEN "excesses"
        ELSE "within_range"

\* a plausible slip: every branch appending the capped ratio current/target
NutrientScoreCappedRatio(nutrient, current, target) ==
    FracMin(One, FracOver(Percentage(current, target), 100))

\* a plausible slip: line 118 appending percentage, not percentage / 100
NutrientScoreUnscaled(nutrient, current, target) ==
    LET percentage == Percentage(current, target)
        r == RangeOf(nutrient)
        b == Bucket(nutrient, current, target)
    IN  IF b = "deficiencies" THEN percentage
        ELSE IF b = "excesses" THEN FracMin(One, IntOverFrac(r.max, percentage))
        ELSE One

\* lines 118, 121, 124: what the branch appends to scores
NutrientScore(nutrient, current, target) ==
    LET percentage == Percentage(current, target)
        r == RangeOf(nutrient)
        b == Bucket(nutrient, current, target)
    IN  IF b = "deficiencies" THEN FracOver(percentage, 100)
        ELSE IF b = "excesses" THEN FracMin(One, IntOverFrac(r.max, percentage))
        ELSE One

\* lines 109-114
NutrientInfo(nutrient, current, target) ==
    [current |-> current, target |-> target,
     percentage |-> Percentage(current, target), unit |-> AnalyzerUnit(nutrient)]

\* the nutrients of totals the loop gets past its `continue`s with
Looked(totals, targets) == {n \in DOMAIN totals : ~Skipped(targets, n)}

\* line 103 raises ZeroDivisionError on a zero target and TypeError on a
\* value that is not a number; lines 132-134 catch both
AnalyzeRaises(totals, custom_targets) ==
    LET targets == TargetsFor(custom_targets)
    IN  \E n \in Looked(totals, targets) :
            targets[n] = 0 \/ ~IsNumber(totals[n])

RECURSIVE SumScores(_, _, _)
SumScores(S, totals, targets) ==
    IF S = {} THEN Zero
    ELSE LET n == CHOOSE x \in S : TRUE
         IN  FracAdd(NutrientScore(n, totals[n], targets[n]),
                     SumScores(S \ {n}, totals, targets))

\* the dict of line 134
EmptyAnalysis ==
    [deficiencies |-> <<>>, excesses |-> <<>>, within_range |-> <<>>,
     overall_score |-> Zero]

analyze_nutrition(totals, custom_targets) ==
    LET targets == TargetsFor(custom_targets)
        looked == Looked(totals, targets)
        filed(b) == {n \in looked : Bucket(n, totals[n], targets[n]) = b}
        dict(b) == [n \in filed(b) |-> NutrientInfo(n, totals[n], targets[n])]
    IN  IF AnalyzeRaises(totals, custom_targets) THEN EmptyAnalysis
        ELSE [deficiencies |-> dict("deficiencies"),
              excesses |-> dict("excesses"),
              within_range |-> dict("within_range"),
              overall_score |->
                  IF looked = {} THEN Zero
                  ELSE FracTimes(FracOver(SumScores(looked, totals, targets),
                                          Cardinality(looked)), 100)]

(***************************************************************************)
(* The analyzer under test: calculate_totals and analyze_nutrition applied *)
(* to logs, totals and targets drawn from the sets below.                  *)
(***************************************************************************)
MaxLog == 3

\* partial entries, an entry with a field outside the fixed set, and an entry
\* with every field add_food_to_log writes
EntryPool ==
    { [calories |-> 500000, protein |-> 30000],
      [calories |-> 700000, protein |-> 40000],
      [name |-> "Zinc tablet", protein |-> 40000, zinc |-> 5000],
      [calories |-> 1500000, sodium |-> 2400000, fiber |-> 30000],
      [name |-> "Oat bar", serving_size |-> 1000, food_code |-> "18601000",
       calories |-> 200000, protein |-> 15000, carbs |-> 50000, fat |-> 6500,
       fiber |-> 5000, sugar |-> 5000, sodium |-> 1200000, calcium |-> 100000,
       iron |-> 1800, vitamin_c |-> 0] }

RECURSIVE SeqsUpTo(_, _)
SeqsUpTo(S, n) ==
    IF n = 0 THEN {<<>>}
    ELSE LET shorter == SeqsUpTo(S, n - 1)
         IN  shorter \cup {Append(q, x) : q \in shorter, x \in S}

\* totals dicts other than those calculate_totals builds
PartialTotals ==
    { [protein |-> 40000],
      [protein |-> 40000, calories |-> 1200000, sodium |-> 0, zinc |-> 5000],
      [calories |-> 1800000, sodium |-> 2300000, fiber |-> 0],
      [calories |-> 3000000, protein |-> 120000, sodium |-> 4600000] }

CustomTargets ==
    { None,
      [protein |-> 50000],
      [protein |-> 150000, calories |-> 0],
      [calories |-> 1000000, sodium |-> 0, zinc |-> 10000],
      [protein |-> -50000, sodium |-> -2300000] }

InitAnalyzer ==
    /\ daily_log \in SeqsUpTo(EntryPool, MaxLog)
    /\ food_data = None
    /\ call = NoCall
    /\ result = None
    /\ st_error = FALSE
    /\ app = "main"
    /\ clock = 0
    /\ goals = default_goals

CallCalculateTotals ==
    /\ call' = [fn |-> "calculate_totals"]
    /\ result' = calculate_totals(daily_log)
    /\ st_error' = TotalsRaises(daily_log)
    /\ UNCHANGED <<food_data, daily_log, app, clock, goals>>

CallAnalyzeNutrition ==
    \E totals \in {calculate_totals(daily_log)} \cup PartialTotals :
    \E custom_targets \in CustomTargets :
        /\ call' = [fn |-> "analyze_nutrition", totals |-> totals,
                    custom_targets |-> custom_targets]
        /\ result' = analyze_nutrition(totals, custom_targets)
        /\ st_error' = AnalyzeRaises(totals, custom_targets)
        /\ UNCHANGED <<food_data, daily_log, app, clock, goals>>

NextAnalyzer == CallCalculateTotals \/ CallAnalyzeNutrition

SpecAnalyzer == InitAnalyzer /\ [][NextAnalyzer]_vars

(***************************************************************************)
(* Properties of the analyzer                                              *)
(***************************************************************************)
TenNutrients ==
    {"calories", "protein", "carbs", "fat", "fiber",
     "sugar", "sodium", "calcium", "iron", "vitamin_c"}

\* the sum of a field over the first k entries, an entry without it adding 0
RECURSIVE FieldSumUpTo(_, _, _)
FieldSumUpTo(log, field, k) ==
    IF k = 0 THEN 0
    ELSE FieldSumUpTo(log, field, k - 1)
         + (IF field \in DOMAIN log[k] THEN log[k][field] ELSE 0)

\* C1: calculate_totals returns a mapping with exactly the ten fixed nutrient
\* keys, each holding the sum of that field over all entries of the log; an
\* entry that omits the field adds 0 and fields outside the ten are ignored.
C1_TotalsAreFieldwiseSums ==
    call.fn = "calculate_totals" =>
        /\ DOMAIN result = TenNutrients
        /\ \A n \in TenNutrients :
               result[n] = FieldSumUpTo(daily_log, n, Len(daily_log))

\* the scenario of the spec (500 + 700 calories, 30 + 40 protein), and a log
\* whose entries omit fields and carry a field outside the ten
C1_Witness ==
    /\ call.fn = "calculate_totals"
    /\ Len(daily_log) = 3
    /\ \E i \in DOMAIN daily_log : "zinc" \in DOMAIN daily_log[i]
    /\ \E i \in DOMAIN daily_log : "calories" \notin DOMAIN daily_log[i]
    /\ result["calories"] = 1200000
    /\ result["protein"] = 110000
    /\ result["iron"] = 0

\* the targets the call of the current state compares against
CallTargets == TargetsFor(call.custom_targets)

\* current/target*100 < k and > k, by cross-multiplication (target # 0)
PctBelow(current, target, k) ==
    IF target > 0 THEN current * 100 < k * target ELSE current * 100 > k * target

PctAbove(current, target, k) ==
    IF target > 0 THEN current * 100 > k * target ELSE current * 100 < k * target

\* the nutrients of the call present in totals and targets with a non-zero target
Comparable ==
    {n \in DOMAIN call.totals \cap DOMAIN CallTargets : CallTargets[n] # 0}

Classified ==
    DOMAIN result.deficiencies \cup DOMAIN result.excesses
        \cup DOMAIN result.within_range

\* C2: every nutrient present in totals and targets with a non-zero target is
\* filed under exactly one of deficiencies, excesses, within_range:
\* deficiencies iff current/target*100 is below the lower bound, excesses iff
\* an upper bound is defined and the percentage is above it, within_range
\* otherwise.
C2_ClassifiedInExactlyOneBucket ==
    call.fn = "analyze_nutrition" =>
        \A n \in Comparable :
            LET c == call.totals[n]
                t == CallTargets[n]
                r == RangeOf(n)
                inD == n \in DOMAIN result.deficiencies
                inE == n \in DOMAIN result.excesses
                inW == n \in DOMAIN result.within_range
                below == PctBelow(c, t, r.min)
                above == ~r.inf /\ PctAbove(c, t, r.max)
            IN  /\ inD <=> below
                /\ inE <=> (above /\ ~below)
                /\ inW <=> (~below /\ ~above)
                /\ (inD /\ ~inE /\ ~inW) \/ (~inD /\ inE /\ ~inW)
                       \/ (~inD /\ ~inE /\ inW)

\* protein 40 against the default target 150: a deficiency at 80/3 = 26.67 %
C2_Witness ==
    /\ call.fn = "analyze_nutrition"
    /\ DOMAIN call.custom_targets = {}
    /\ DOMAIN call.totals = {"protein"}
    /\ call.totals["protein"] = 40000
    /\ DOMAIN result.deficiencies = {"protein"}
    /\ result.deficiencies["protein"].percentage = <<80, 3>>
    /\ result.deficiencies["protein"].target = 150000

\* larger values of current to try against the one of the call
LargerValues == {0, 1000, 40000, 120000, 2000000, 2300000, 5000000}

NotDeficientAt(n, c) ==
    n \notin DOMAIN analyze_nutrition([call.totals EXCEPT ![n] = c],
                                      call.custom_targets).deficiencies

\* C3 as stated: for any targets the call accepts, a nutrient filed under
\* excesses or within_range at value c is not a deficiency at any c' > c.
C3_MonotonicForAnyTargets ==
    call.fn = "analyze_nutrition" =>
        \A n \in DOMAIN result.excesses \cup DOMAIN result.within_range :
            \A c \in LargerValues :
                c > call.totals[n] => NotDeficientAt(n, c)

\* C3 amended: the same for the nutrients whose target is positive.
C3_MonotonicForPositiveTargets ==
    call.fn = "analyze_nutrition" =>
        \A n \in DOMAIN result.excesses \cup DOMAIN result.within_range :
            CallTargets[n] > 0 =>
                \A c \in LargerValues :
                    c > call.totals[n] => NotDeficientAt(n, c)

\* a nutrient within range under a positive target with larger values to try,
\* one of which is an excess
C3_Witness ==
    /\ call.fn = "analyze_nutrition"
    /\ "calories" \in DOMAIN result.within_range
    /\ CallTargets["calories"] > 0
    /\ \E c \in LargerValues :
           /\ c > call.totals["calories"]
           /\ "calories" \in DOMAIN analyze_nutrition(
                  [call.totals EXCEPT !["calories"] = c],
                  call.custom_targets).excesses

Without(f, n) == [x \in DOMAIN f \ {n} |-> f[x]]

\* C4: a nutrient whose target is zero is skipped: it is in none of the three
\* dicts, the call reports no error, the result (score included) is the one
\* the call gives without that nutrient, and the remaining nutrients are
\* classified as usual.
C4_ZeroTargetSkipped ==
    call.fn = "analyze_nutrition" =>
        \A n \in DOMAIN call.totals \cap DOMAIN CallTargets :
            CallTargets[n] = 0 =>
                /\ n \notin Classified
                /\ st_error = FALSE
                /\ result = analyze_nutrition(Without(call.totals, n),
                                              call.custom_targets)
                /\ Comparable \subseteq Classified

\* calories has target 0 and a value; protein is still classified
C4_Witness ==
    /\ call.fn = "analyze_nutrition"
    /\ {"calories", "protein"} \subseteq DOMAIN call.totals
    /\ {"calories", "protein"} \subseteq DOMAIN CallTargets
    /\ CallTargets["calories"] = 0
    /\ call.totals["calories"] > 0
    /\ "protein" \in Classified
    /\ "calories" \notin Classified

RECURSIVE FracSum(_)
FracSum(f) ==
    IF DOMAIN f = {} THEN Zero
    ELSE LET n == CHOOSE x \in DOMAIN f : TRUE
         IN  FracAdd(f[n], FracSum(Without(f, n)))

\* 100 times the mean of the fractions of f, 0 for none
MeanTimes100(f) ==
    IF DOMAIN f = {} THEN Zero
    ELSE FracTimes(FracOver(FracSum(f), Cardinality(DOMAIN f)), 100)

\* C5 as stated: the overall score (on its 0-100 scale) is the mean over the
\* classified nutrients of the achievement ratio current/target capped at 1.0.
C5_ScoreIsMeanOfCappedRatios ==
    call.fn = "analyze_nutrition" =>
        result.overall_score =
            MeanTimes100([n \in Classified |->
                FracMin(One, Frac(call.totals[n], CallTargets[n]))])

\* C5 amended: the overall score is 100 times the mean over the classified
\* nutrients of: current/target for a deficiency, (upper bound) / (current /
\* target) capped at 1.0 for an excess, 1.0 for a nutrient within range; it is
\* 0 when no nutrient is classified.
C5_ScoreIsMeanOfBranchScores ==
    call.fn = "analyze_nutrition" =>
        result.overall_score =
            MeanTimes100([n \in Classified |->
                LET ratio == Frac(call.totals[n], CallTargets[n])
                IN  IF n \in DOMAIN result.deficiencies THEN ratio
                    ELSE IF n \in DOMAIN result.excesses
                    THEN FracMin(One, Frac(RangeOf(n).max * ratio[2], 100 * ratio[1]))
                    ELSE One])

\* an analysis with a deficiency, an excess and a nutrient within range below
\* its target, so that the three branches all feed the score
C5_Witness ==
    /\ call.fn = "analyze_nutrition"
    /\ DOMAIN result.deficiencies # {}
    /\ DOMAIN result.excesses # {}
    /\ \E n \in DOMAIN result.within_range : call.totals[n] < CallTargets[n]
    /\ FracLess(Zero, result.overall_score)
    /\ FracLess(result.overall_score, FracInt(100))

(***************************************************************************)
(* Strings and tables                                                      *)
(***************************************************************************)
UpperChars ==
    <<"A", "B", "C", "D", "E", "F", "G", "H", "I", "J", "K", "L", "M",
      "N", "O", "P", "Q", "R", "S", "T", "U", "V", "W", "X", "Y", "Z">>

LowerChars ==
    <<"a", "b", "c", "d", "e", "f", "g", "h", "i", "j", "k", "l", "m",
      "n", "o", "p", "q", "r", "s", "t", "u", "v", "w", "x", "y", "z">>

LowerOf ==
    [c \in Range(UpperChars) |->
        LowerChars[CHOOSE i \in DOMAIN UpperChars : UpperChars[i] = c]]

LowerChar(c) == IF c \in DOMAIN LowerOf THEN LowerOf[c] ELSE c

\* str.lower()
Lower(str) == [i \in DOMAIN str |-> LowerChar(str[i])]

IsSpace(c) == c = " "

\* str.split(): the maximal runs of non-whitespace characters, in order
RECURSIVE SplitFrom(_, _, _)
SplitFrom(str, k, word) ==
    IF k > Len(str) THEN (IF word = <<>> THEN <<>> ELSE <<word>>)
    ELSE IF IsSpace(str[k])
    THEN (IF word = <<>> THEN <<>> ELSE <<word>>) \o SplitFrom(str, k + 1, <<>>)
    ELSE SplitFrom(str, k + 1, Append(word, str[k]))

Split(str) == SplitFrom(str, 1, <<>>)

\* seq[:n]
Take(seq, n) == SubSeq(seq, 1, IF n < Len(seq) THEN n ELSE Len(seq))

\* sample_data of _create_sample_data, column by column (lines 115-133)
sample_data ==
    ("Food code" :>
        <<"11100000", "11111000", "21201000", "23101000", "13101000", "15121000", "18601000", "19101000", "63101000", "74101000">>) @@
    ("Main food description" :>
        <<<<"M", "i", "l", "k", ",", " ", "r", "e", "d", "u", "c", "e", "d", " ", "f", "a", "t">>,
          <<"M", "i", "l", "k", ",", " ", "w", "h", "o", "l", "e">>,
          <<"A", "p", "p", "l", "e", ",", " ", "r", "a", "w">>,
          <<"C", "h", "i", "c", "k", "e", "n", " ", "b", "r", "e", "a", "s", "t", ",", " ", "c", "o", "o", "k", "e", "d">>,
          <<"E", "g", "g", ",", " ", "w", "h", "o", "l", "e", ",", " ", "c", "o", "o", "k", "e", "d">>,
          <<"S", "a", "l", "m", "o", "n", ",", " ", "c", "o", "o", "k", "e", "d">>,
          <<"W", "h", "i", "t", "e", " ", "b", "r", "e", "a", "d">>,
          <<"R", "i", "c", "e", ",", " ", "c", "o", "o", "k", "e", "d">>,
          <<"B", "r", "o", "c", "c", "o", "l", "i", ",", " ", "c", "o", "o", "k", "e", "d">>,
          <<"B", "a", "n", "a", "n", "a", ",", " ", "r", "a", "w">>>>) @@
    ("Energy (kcal)" :>
        <<52000, 61000, 52000, 165000, 155000, 208000, 265000, 130000, 34000, 89000>>) @@
    ("Protein (g)" :>
        <<3330, 3270, 260, 31020, 13000, 25400, 9000, 2700, 2800, 1100>>) @@
    ("Carbohydrate (g)" :>
        <<4830, 4630, 13810, 0, 1100, 0, 49000, 28200, 7000, 22800>>) @@
    ("Total Fat (g)" :>
        <<2140, 3200, 170, 3570, 10600, 12400, 3200, 300, 400, 300>>) @@
    ("Fiber, total dietary (g)" :>
        <<0, 0, 2400, 0, 0, 0, 2700, 400, 5100, 2600>>) @@
    ("Sugars, total (g)" :>
        <<4880, 4810, 10390, 0, 600, 0, 5000, 100, 1500, 12200>>) @@
    ("Sodium (mg)" :>
        <<39000, 38000, 1000, 74000, 124000, 59000, 681000, 1000, 41000, 1000>>) @@
    ("Calcium (mg)" :>
        <<125000, 123000, 6000, 15000, 50000, 12000, 151000, 10000, 47000, 5000>>) @@
    ("Iron (mg)" :>
        <<0, 0, 120, 1040, 1800, 800, 3600, 800, 700, 300>>) @@
    ("Vitamin C (mg)" :>
        <<100, 0, 4600, 0, 0, 0, 0, 0, 89200, 8700>>)

\* further rows of the kind a loaded CSV holds: descriptions whose words are all
\* of three characters or fewer, one in capitals, values that tie with others
csv_data ==
    ("Food code" :>
        <<"41101000", "11121000", "53101000", "72101000", "41420000", "22311000">>) @@
    ("Main food description" :>
        <<<<"L", "e", "n", "t", "i", "l", "s", ",", " ", "b", "o", "i", "l", "e", "d">>,
          <<"M", "I", "L", "K", ",", " ", "d", "r", "y">>,
          <<"O", "a", "t", " ", "b", "a", "r">>,
          <<"S", "p", "i", "n", "a", "c", "h", ",", " ", "f", "r", "e", "s", "h">>,
          <<"T", "o", "f", "u", ",", " ", "f", "i", "r", "m">>,
          <<"H", "a", "m">>>>) @@
    ("Energy (kcal)" :>
        <<116000, 496000, 390000, 23000, 76000, 145000>>) @@
    ("Protein (g)" :>
        <<9000, 26300, 9000, 2900, 8000, 21000>>) @@
    ("Carbohydrate (g)" :>
        <<20000, 38000, 66000, 3600, 1900, 1500>>) @@
    ("Total Fat (g)" :>
        <<400, 26700, 7000, 400, 4800, 5500>>) @@
    ("Fiber, total dietary (g)" :>
        <<7900, 0, 10000, 2200, 300, 0>>) @@
    ("Sugars, total (g)" :>
        <<1800, 38000, 1000, 400, 600, 0>>) @@
    ("Sodium (mg)" :>
        <<2000, 371000, 5000, 79000, 7000, 1200000>>) @@
    ("Calcium (mg)" :>
        <<19000, 912000, 54000, 99000, 350000, 8000>>) @@
    ("Iron (mg)" :>
        <<3300, 500, 3600, 2700, 5400, 800>>) @@
    ("Vitamin C (mg)" :>
        <<1500, 8600, 0, 28100, 100, 0>>)

\* row i of a dict of columns
RowOf(data, i) == [c \in DOMAIN data |-> data[c][i]]

AllColumns == DOMAIN sample_data

\* pd.DataFrame(sample_data)
SampleTable ==
    [columns |-> AllColumns,
     rows |-> [i \in 1..Len(sample_data["Food code"]) |-> RowOf(sample_data, i)]]

(***************************************************************************)
(* FoodRecommender                                                         *)
(***************************************************************************)
nutrient_columns ==
    ("protein" :> "Protein (g)") @@
    ("fiber" :> "Fiber, total dietary (g)") @@
    ("calcium" :> "Calcium (mg)") @@
    ("iron" :> "Iron (mg)") @@
    ("vitamin_c" :> "Vitamin C (mg)") @@
    ("fat" :> "Total Fat (g)") @@
    ("carbs" :> "Carbohydrate (g)")

\* limit=10 in the call of get_recommendations
RecommendLimit == 10

\* _get_nutrient_unit: '(g)' / '(mg)' / '(mcg)' in column_name, on the names
\* the tables here have
RecommenderUnit(column_name) ==
    IF column_name \in {"Protein (g)", "Fiber, total dietary (g)", "Total Fat (g)",
                        "Carbohydrate (g)", "Sugars, total (g)"} THEN "g"
    ELSE IF column_name \in {"Calcium (mg)", "Iron (mg)", "Vitamin C (mg)",
                             "Sodium (mg)"} THEN "mg"
    ELSE ""

\* a plausible slip: >= 0 for > 0 in the filter of line 89
RowsNotBelowZero(df, nutrient_column) ==
    SelectSeq([i \in 1..Len(df.rows) |-> i],
              LAMBDA i : df.rows[i][nutrient_column] >= 0)

\* df[df[nutrient_column] > 0]: the index labels kept, in table order
PositiveRows(df, nutrient_column) ==
    SelectSeq([i \in 1..Len(df.rows) |-> i],
              LAMBDA i : df.rows[i][nutrient_column] > 0)

\* the position in order, from k on, of the first row holding the largest
\* value, best being the position found so far
RECURSIVE FirstLargestFrom(_, _, _, _, _)
FirstLargestFrom(df, order, nutrient_column, k, best) ==
    IF k > Len(order) THEN best
    ELSE FirstLargestFrom(df, order, nutrient_column, k + 1,
             IF df.rows[order[k]][nutrient_column]
                    > df.rows[order[best]][nutrient_column]
             THEN k ELSE best)

FirstLargest(df, order, nutrient_column) ==
    FirstLargestFrom(df, order, nutrient_column, 2, 1)

\* the same for the smallest value
RECURSIVE FirstSmallestFrom(_, _, _, _, _)
FirstSmallestFrom(df, order, nutrient_column, k, best) ==
    IF k > Len(order) THEN best
    ELSE FirstSmallestFrom(df, order, nutrient_column, k + 1,
             IF df.rows[order[k]][nutrient_column]
                    < df.rows[order[best]][nutrient_column]
             THEN k ELSE best)

RemoveAt(seq, p) == SubSeq(seq, 1, p - 1) \o SubSeq(seq, p + 1, Len(seq))

\* a plausible slip: nsmallest for nlargest
RECURSIVE NSmallest(_, _, _, _)
NSmallest(df, order, n, nutrient_column) ==
    IF n = 0 \/ order = <<>> THEN <<>>
    ELSE LET p == FirstSmallestFrom(df, order, nutrient_column, 2, 1)
         IN  <<order[p]>> \o NSmallest(df, RemoveAt(order, p), n - 1, nutrient_column)

\* DataFrame.nlargest(n, column) with its default keep='first': the n rows of
\* largest value in descending order, rows of equal value in table order
RECURSIVE NLargest(_, _, _, _)
NLargest(df, order, n, nutrient_column) ==
    IF n = 0 \/ order = <<>> THEN <<>>
    ELSE LET p == FirstLargest(df, order, nutrient_column)
         IN  <<order[p]>> \o NLargest(df, RemoveAt(order, p), n - 1, nutrient_column)

\* lines 132-136 and the [:2] of lines 139 and 143
LeadingKeywords(description) ==
    LET food_name == Lower(description)
        words == Split(food_name)
        main_keywords == SelectSeq(words, LAMBDA word : Len(word) > 3)
    IN  Take(main_keywords, 2)

\* a plausible slip: the floor of limit // 2 left out of line 141
KeepsWithoutFloor(is_similar, n_unique, limit) == ~is_similar

\* a plausible slip: <= for the < of line 141
KeepsFloorInclusive(is_similar, n_unique, limit) ==
    ~is_similar \/ n_unique <= limit \div 2

\* line 141: whether the row is appended
Keeps(is_similar, n_unique, limit) == ~is_similar \/ n_unique < limit \div 2

\* lines 145-146
Stops(n_unique, limit) == n_unique >= limit

\* the loop of lines 131-146 from position k of the ranked rows
RECURSIVE DedupFrom(_, _, _, _, _, _)
DedupFrom(df, order, k, limit, seen_keywords, unique_foods) ==
    IF k > Len(order) THEN unique_foods
    ELSE LET lead == LeadingKeywords(df.rows[order[k]]["Main food description"])
             is_similar == \E i \in DOMAIN lead : lead[i] \in seen_keywords
             keep == Keeps(is_similar, Len(unique_foods), limit)
             unique2 == IF keep THEN Append(unique_foods, order[k]) ELSE unique_foods
             seen2 == IF keep THEN seen_keywords \cup Range(lead) ELSE seen_keywords
         IN  IF Stops(Len(unique2), limit) THEN unique2
             ELSE DedupFrom(df, order, k + 1, limit, seen2, unique2)

\* row['Main food description'] raises KeyError on a table without the column
DedupRaises(df, order) ==
    order # <<>> /\ "Main food description" \notin df.columns

\* _deduplicate_foods: the index labels it keeps; df.head(limit) on an exception
_deduplicate_foods(df, order, limit) ==
    IF DedupRaises(df, order) THEN Take(order, limit)
    ELSE DedupFrom(df, order, 1, limit, {}, <<>>)

\* the rows the result is built from (lines 89-98), as index labels
RichRows(df, nutrient_column, limit) ==
    LET filtered == PositiveRows(df, nutrient_column)
        sorted == NLargest(df, filtered, limit * 2, nutrient_column)
    IN  IF filtered = <<>> THEN <<>>
        ELSE _deduplicate_foods(df, sorted, limit)

\* the KeyErrors of lines 89 and 103-104 and the TypeError of the > of line 89
\* on a value that is not a number, caught at lines 112-114
RichRaises(df, nutrient_column, limit) ==
    \/ nutrient_column \notin df.columns
    \/ \E i \in 1..Len(df.rows) : ~IsNumber(df.rows[i][nutrient_column])
    \/ /\ {"Main food description", "Food code"} \ df.columns # {}
       /\ RichRows(df, nutrient_column, limit) # <<>>

\* lines 102-108
RichItem(row, nutrient_column) ==
    [name |-> row["Main food description"],
     food_code |-> row["Food code"],
     nutrient_value |-> row[nutrient_column],
     unit |-> RecommenderUnit(nutrient_column),
     calories_per_100g |->
         IF "Energy (kcal)" \in DOMAIN row THEN row["Energy (kcal)"] ELSE 0]

\* _get_foods_rich_in_nutrient: [] from the except branch
_get_foods_rich_in_nutrient(df, nutrient_column, limit) ==
    IF RichRaises(df, nutrient_column, limit) THEN <<>>
    ELSE LET unique_foods == RichRows(df, nutrient_column, limit)
             results == [k \in DOMAIN unique_foods |->
                            RichItem(df.rows[unique_foods[k]], nutrient_column)]
         IN  Take(results, limit)

\* a plausible slip: the column test of line 59 left out
RecommendableUnchecked(deficiencies, df) ==
    {n \in deficiencies : n \in DOMAIN nutrient_columns}

\* the nutrients get_recommendations calls _get_foods_rich_in_nutrient for
Recommendable(deficiencies, df) ==
    {n \in deficiencies :
        n \in DOMAIN nutrient_columns /\ nutrient_columns[n] \in df.columns}

\* food_data.columns of line 59 raises AttributeError on None, caught at
\* lines 70-72
RecommendRaises(deficiencies, df) ==
    df = None /\ deficiencies \cap DOMAIN nutrient_columns # {}

\* a plausible slip: the try/except of lines 87 and 112-114 left out, so
\* that the except of lines 70-72 catches what a lookup raises
get_recommendations_all_or_nothing(deficiencies, df) ==
    IF RecommendRaises(deficiencies, df) THEN <<>>
    ELSE IF \E n \in Recommendable(deficiencies, df) :
                RichRaises(df, nutrient_columns[n], RecommendLimit)
    THEN <<>>
    ELSE LET rich_foods ==
                 [n \in Recommendable(deficiencies, df) |->
                     _get_foods_rich_in_nutrient(df, nutrient_columns[n],
                                                 RecommendLimit)]
             keys == {n \in DOMAIN rich_foods : rich_foods[n] # <<>>}
         IN  [n \in keys |-> rich_foods[n]]

\* get_recommendations; deficiencies stands for the keys of the dict, whose
\* values the method does not read; {} from the except branch
get_recommendations(deficiencies, df) ==
    IF RecommendRaises(deficiencies, df) THEN <<>>
    ELSE LET rich_foods ==
                 [n \in Recommendable(deficiencies, df) |->
                     _get_foods_rich_in_nutrient(df, nutrient_columns[n],
                                                 RecommendLimit)]
             keys == {n \in DOMAIN rich_foods : rich_foods[n] # <<>>}
         IN  [n \in keys |-> rich_foods[n]]

\* whether get_recommendations or a call of _get_foods_rich_in_nutrient
\* reported through st.error
RecommendReportsError(deficiencies, df) ==
    \/ RecommendRaises(deficiencies, df)
    \/ /\ df # None
       /\ \E n \in Recommendable(deficiencies, df) :
              RichRaises(df, nutrient_columns[n], RecommendLimit)

(***************************************************************************)
(* The recommender under test: get_recommendations applied to tables of up *)
(* to MaxRows rows and to sets of deficient nutrients.                     *)
(***************************************************************************)
MaxRows == 22

\* the rows tables are made of: the sample rows, then the further CSV rows
FoodPool ==
    [i \in 1..Len(sample_data["Food code"]) |-> RowOf(sample_data, i)]
        \o [i \in 1..Len(csv_data["Food code"]) |-> RowOf(csv_data, i)]

\* a table of n rows: the pool read cyclically from start in steps of step
\* (step 0 repeats one row), without the columns in dropped
TableOf(n, start, step, dropped) ==
    [columns |-> AllColumns \ dropped,
     rows |-> [i \in 1..n |->
                  LET row == FoodPool[((start + (i - 1) * step) % Len(FoodPool)) + 1]
                  IN  [c \in AllColumns \ dropped |-> row[c]]]]

\* load_food_database hands out tables with the six required columns only;
\* the other columns may be missing from a CSV
DroppedColumns ==
    { {"Iron (mg)"},
      {"Iron (mg)", "Fiber, total dietary (g)", "Sugars, total (g)", "Sodium (mg)",
       "Calcium (mg)", "Vitamin C (mg)"} }

RecommenderTables ==
    {SampleTable}
        \cup {TableOf(n, start, step, {}) :
                 n \in 0..MaxRows, start \in {0, 4, 9, 12, 15}, step \in {0, 1, 3}}
        \cup {TableOf(n, 0, 1, dropped) : n \in 0..MaxRows, dropped \in DroppedColumns}

\* the nutrients a deficiencies dict may be keyed by here; sugar has no column
DeficientNutrients == {"protein", "iron", "sugar"}

InitRecommender ==
    /\ food_data \in RecommenderTables
    /\ daily_log = <<>>
    /\ call = NoCall
    /\ result = None
    /\ st_error = FALSE
    /\ app = "main"
    /\ clock = 0
    /\ goals = default_goals

CallGetRecommendations ==
    \E deficiencies \in SUBSET DeficientNutrients :
        /\ call' = [fn |-> "get_recommendations", deficiencies |-> deficiencies]
        /\ result' = get_recommendations(deficiencies, food_data)
        /\ st_error' = RecommendReportsError(deficiencies, food_data)
        /\ UNCHANGED <<food_data, daily_log, app, clock, goals>>

NextRecommender == CallGetRecommendations

SpecRecommender == InitRecommender /\ [][NextRecommender]_vars

(***************************************************************************)
(* Properties of the recommender                                           *)
(***************************************************************************)
\* the number of rows of the table whose value in the column is above 0
CountPositive(df, column) ==
    Cardinality({i \in 1..Len(df.rows) : df.rows[i][column] > 0})

\* C6: each list get_recommendations returns has at most limit (10) items,
\* and every returned item's nutrient_value is strictly greater than 0.
C6_AtMostLimitAllPositive ==
    call.fn = "get_recommendations" =>
        \A n \in DOMAIN result :
            /\ Len(result[n]) <= RecommendLimit
            /\ \A k \in DOMAIN result[n] : result[n][k].nutrient_value > 0

\* a full list of ten from a table with more than ten rows above 0 and rows at 0
C6_Witness ==
    /\ call.fn = "get_recommendations"
    /\ "iron" \in DOMAIN result
    /\ Len(result["iron"]) = RecommendLimit
    /\ CountPositive(food_data, "Iron (mg)") > RecommendLimit
    /\ \E i \in 1..Len(food_data.rows) : food_data.rows[i]["Iron (mg)"] = 0

\* C7: the items recommended for a nutrient are in non-increasing order of the
\* nutrient's column value, rows of equal value keep their table order, the
\* first item is the highest-valued food of the table, and there are no more
\* items than rows with a value above 0 (at most 3 for 3 such foods).
C7_RankedStableHighestFirst ==
    call.fn = "get_recommendations" =>
        \A n \in DOMAIN result :
            LET column == nutrient_columns[n]
                items == result[n]
                rows == RichRows(food_data, column, RecommendLimit)
            IN  /\ Len(items) = Len(rows)
                /\ \A k \in DOMAIN items :
                       items[k] = RichItem(food_data.rows[rows[k]], column)
                /\ \A i, j \in DOMAIN items :
                       i < j =>
                           /\ items[i].nutrient_value >= items[j].nutrient_value
                           /\ items[i].nutrient_value = items[j].nutrient_value
                                  => rows[i] < rows[j]
                /\ \A r \in 1..Len(food_data.rows) :
                       /\ food_data.rows[r][column] <= items[1].nutrient_value
                       /\ food_data.rows[r][column] = items[1].nutrient_value
                              => rows[1] <= r
                /\ Len(items) <= CountPositive(food_data, column)

\* three foods with iron above 0, two of them of equal value: three results,
\* the tie in table order ahead of the smaller value
C7_Witness ==
    /\ call.fn = "get_recommendations"
    /\ "iron" \in DOMAIN result
    /\ CountPositive(food_data, "Iron (mg)") = 3
    /\ Len(result["iron"]) = 3
    /\ result["iron"][1].nutrient_value = result["iron"][2].nutrient_value
    /\ result["iron"][1].name # result["iron"][2].name
    /\ result["iron"][2].nutrient_value > result["iron"][3].nutrient_value

\* C8: for a deficient nutrient whose column has at least limit/2 rows with a
\* value above 0, the list holds at least limit/2 items, whatever keywords
\* the descriptions share.
C8_DedupNeverStarves ==
    call.fn = "get_recommendations" =>
        \A n \in call.deficiencies \cap DOMAIN nutrient_columns :
            (/\ nutrient_columns[n] \in food_data.columns
             /\ CountPositive(food_data, nutrient_columns[n]) >= RecommendLimit \div 2)
                => /\ n \in DOMAIN result
                   /\ Len(result[n]) >= RecommendLimit \div 2

\* more than limit/2 rows, every description with the same leading keywords:
\* exactly limit/2 items come back
C8_Witness ==
    /\ call.fn = "get_recommendations"
    /\ "protein" \in DOMAIN result
    /\ Len(food_data.rows) > RecommendLimit \div 2
    /\ \A i \in 1..Len(food_data.rows) :
           /\ food_data.rows[i]["Protein (g)"] > 0
           /\ LeadingKeywords(food_data.rows[i]["Main food description"])
                  = LeadingKeywords(food_data.rows[1]["Main food description"])
           /\ LeadingKeywords(food_data.rows[i]["Main food description"]) # <<>>
    /\ Len(result["protein"]) = RecommendLimit \div 2

\* C9: every key of the result is a key of deficiencies that maps to a column
\* of the table with a food above 0, and maps to a non-empty list; a deficient
\* nutrient without a column mapping or whose column is missing yields no key,
\* and the call reports no error.
C9_OnlyMappedPresentNonEmpty ==
    call.fn = "get_recommendations" =>
        /\ DOMAIN result \subseteq call.deficiencies
        /\ \A n \in DOMAIN result :
               /\ result[n] # <<>>
               /\ n \in DOMAIN nutrient_columns
               /\ nutrient_columns[n] \in food_data.columns
               /\ CountPositive(food_data, nutrient_columns[n]) > 0
        /\ \A n \in call.deficiencies :
               (n \notin DOMAIN nutrient_columns
                    \/ nutrient_columns[n] \notin food_data.columns)
                   => n \notin DOMAIN result
        /\ st_error = FALSE

\* sugar has no mapping and the table has no iron column: protein alone is
\* recommended for
C9_Witness ==
    /\ call.fn = "get_recommendations"
    /\ call.deficiencies = {"protein", "iron", "sugar"}
    /\ "Iron (mg)" \notin food_data.columns
    /\ DOMAIN result = {"protein"}
    /\ st_error = FALSE

(***************************************************************************)
(* DataProcessor                                                           *)
(***************************************************************************)
\* str.strip(): without the whitespace at either end
RECURSIVE LStrip(_)
LStrip(str) ==
    IF str # <<>> /\ IsSpace(Head(str)) THEN LStrip(Tail(str)) ELSE str

RECURSIVE RStrip(_)
RStrip(str) ==
    IF str # <<>> /\ IsSpace(str[Len(str)])
    THEN RStrip(SubSeq(str, 1, Len(str) - 1)) ELSE str

Strip(str) == RStrip(LStrip(str))

\* sub in str
Contains(str, sub) ==
    \E i \in 0..(Len(str) - Len(sub)) : SubSeq(str, i + 1, i + Len(sub)) = sub

\* a plausible slip: .head(limit) left out of line 163
HeadUncut(rows, n) == rows

\* DataFrame.head(n): the first n rows, all but the last -n for a negative n
HeadRows(rows, n) ==
    IF n >= 0 THEN Take(rows, n)
    ELSE Take(rows, IF Len(rows) + n > 0 THEN Len(rows) + n ELSE 0)

\* a plausible slip: the length test of line 152 left out
TooShortOnlyEmpty(query) == query = <<>>

\* line 152: the queries answered with [] at once
TooShort(query) == query = <<>> \/ Len(query) < 2

\* df['Main food description'] raises KeyError on a table without the column,
\* and TypeError on None
SearchRaises(df, query) ==
    /\ ~TooShort(query)
    /\ (df = None \/ "Main food description" \notin df.columns)

\* search_foods: the matching rows as to_dict('records') lists them
search_foods(df, query, limit) ==
    IF TooShort(query) \/ SearchRaises(df, query) THEN <<>>
    ELSE LET q == Strip(Lower(query))
             mask(row) == Contains(Lower(row["Main food description"]), q)
         IN  HeadRows(SelectSeq(df.rows, mask), limit)

\* str(food_code): the decimal digits of an int, a str as it is
RECURSIVE IntStr(_)
IntStr(n) ==
    IF n < 0 THEN "-" \o IntStr(-n)
    ELSE IF n < 10 THEN Digits[n + 1]
    ELSE IntStr(n \div 10) \o Digits[(n % 10) + 1]

Str(v) == IF IsNumber(v) THEN IntStr(v) ELSE v

\* df['Food code'] raises KeyError on a table without the column, and
\* TypeError on None
CodeRaises(df) == df = None \/ "Food code" \notin df.columns

\* a plausible slip: iloc[-1] for iloc[0] in line 186
LastRow(rows) == rows[Len(rows)]

\* result.iloc[0]
FirstRow(rows) == rows[1]

\* get_food_by_code: the record as to_dict() gives it, or None
get_food_by_code(df, food_code) ==
    IF CodeRaises(df) THEN None
    ELSE LET code == Str(food_code)
             matches == SelectSeq(df.rows, LAMBDA row : row["Food code"] = code)
         IN  IF matches # <<>> THEN FirstRow(matches) ELSE None

(***************************************************************************)
(* The accessor under test: search_foods and get_food_by_code applied to   *)
(* tables, queries, limits and codes drawn from the sets below.            *)
(***************************************************************************)
\* the table with the code of every second row set to that of the row before
\* it: two records of different content under one code
PairedCodes(df) ==
    [df EXCEPT !.rows =
        [i \in DOMAIN df.rows |->
            [df.rows[i] EXCEPT !["Food code"] =
                df.rows[i - ((i - 1) % 2)]["Food code"]]]]

AccessorTables ==
    {SampleTable}
        \cup {TableOf(n, start, 1, {}) : n \in 0..MaxRows, start \in {0, 9}}
        \cup {TableOf(n, 0, 1, dropped) : n \in {3}, dropped \in DroppedColumns}
        \cup {PairedCodes(TableOf(n, 0, 1, {})) : n \in {4, 7}}

\* queries: without a match, in either case, with whitespace at an end or
\* inside, shorter than two characters, of whitespace only
Queries ==
    { <<"x", "y">>,
      <<"m", "i", "l", "k">>,
      <<"M", "I", "L", "K">>,
      <<"M", "i", "l", "k", ",", " ", "W">>,
      <<"f", "a", "t", " ">>,
      <<" ", "r", "a", "w">>,
      <<"o", "o">>,
      <<"a">>,
      <<>>,
      <<" ", " ">>,
      <<" ", "k">>,
      <<"C", "O">> }

\* limit: the default of 20 and smaller ones
Limits == {0, 1, 5, 20}

InitAccessor ==
    /\ food_data \in AccessorTables
    /\ daily_log = <<>>
    /\ call = NoCall
    /\ result = None
    /\ st_error = FALSE
    /\ app = "main"
    /\ clock = 0
    /\ goals = default_goals

CallSearchFoods ==
    \E query \in Queries : \E limit \in Limits :
        /\ call' = [fn |-> "search_foods", query |-> query, limit |-> limit]
        /\ result' = search_foods(food_data, query, limit)
        /\ st_error' = SearchRaises(food_data, query)
        /\ UNCHANGED <<food_data, daily_log, app, clock, goals>>

\* food_code as a str: of the sample rows, of the further rows and of no row
StrCodes == {"11100000", "21201000", "13101000", "22311000", "99999999", ""}

\* food_code as an int
IntCodes == {21201000, 11111000, 99}

GetFoodByCode(food_code) ==
    /\ call' = [fn |-> "get_food_by_code", food_code |-> food_code]
    /\ result' = get_food_by_code(food_data, food_code)
    /\ st_error' = CodeRaises(food_data)
    /\ UNCHANGED <<food_data, daily_log, app, clock, goals>>

CallGetFoodByCode ==
    \/ \E food_code \in StrCodes : GetFoodByCode(food_code)
    \/ \E food_code \in IntCodes : GetFoodByCode(food_code)

NextAccessor == CallSearchFoods \/ CallGetFoodByCode

SpecAccessor == InitAccessor /\ [][NextAccessor]_vars

(***************************************************************************)
(* Properties of the accessor                                              *)
(***************************************************************************)
\* whether the description holds the text, compared without regard to case
HoldsIgnoringCase(description, text) ==
    \E i \in 0..(Len(description) - Len(text)) :
        \A k \in 1..Len(text) :
            LowerChar(description[i + k]) = LowerChar(text[k])

\* whether seq can be read off rows from position k on, in order
RECURSIVE ReadsOffFrom(_, _, _)
ReadsOffFrom(seq, rows, k) ==
    IF seq = <<>> THEN TRUE
    ELSE IF k > Len(rows) THEN FALSE
    ELSE IF rows[k] = Head(seq) THEN ReadsOffFrom(Tail(seq), rows, k + 1)
    ELSE ReadsOffFrom(seq, rows, k + 1)

\* C10 as stated: search_foods returns only records whose description holds
\* the query as a case-insensitive substring, in table order, at most limit
\* of them, and the empty list when no description matches.
C10_ReturnsMatchesOfQuery ==
    call.fn = "search_foods" =>
        /\ \A k \in DOMAIN result :
               HoldsIgnoringCase(result[k]["Main food description"], call.query)
        /\ ReadsOffFrom(result, food_data.rows, 1)
        /\ Len(result) <= call.limit
        /\ (\A i \in 1..Len(food_data.rows) :
                ~HoldsIgnoringCase(food_data.rows[i]["Main food description"],
                                   call.query))
               => result = <<>>

\* C10 amended: the same with the query stripped of the whitespace at its
\* ends: the returned records hold the stripped query, and the list is empty
\* when no description holds the stripped query.
C10_ReturnsMatchesOfStrippedQuery ==
    call.fn = "search_foods" =>
        /\ \A k \in DOMAIN result :
               HoldsIgnoringCase(result[k]["Main food description"],
                                 Strip(call.query))
        /\ ReadsOffFrom(result, food_data.rows, 1)
        /\ Len(result) <= call.limit
        /\ (\A i \in 1..Len(food_data.rows) :
                ~HoldsIgnoringCase(food_data.rows[i]["Main food description"],
                                   Strip(call.query)))
               => result = <<>>

\* a query in capitals with more matches than the limit allows: the first
\* match in table order comes back alone
C10_Witness ==
    /\ call.fn = "search_foods"
    /\ call.query = <<"M", "I", "L", "K">>
    /\ call.limit = 1
    /\ Len(result) = 1
    /\ Cardinality({i \in 1..Len(food_data.rows) :
           HoldsIgnoringCase(food_data.rows[i]["Main food description"],
                             call.query)}) > 1
    /\ result[1] = food_data.rows[1]

\* the scenario of the spec: "xy" with limit 5 on a table nothing matches in
C10_ScenarioNoMatch ==
    /\ call.fn = "search_foods"
    /\ call.query = <<"x", "y">>
    /\ call.limit = 5
    /\ Len(food_data.rows) > 0
    /\ result = <<>>

\* whether the record's food code is the given code, an int given being read
\* by its decimal digits
HasCode(row, food_code) ==
    row["Food code"]
        = (IF IsNumber(food_code) THEN ToString(food_code) ELSE food_code)

\* C12: get_food_by_code returns the first record in table order whose food
\* code equals the given code, returns None when no record has that code, and
\* does not raise (no exception is caught and reported either).
C12_FirstRecordWithCodeOrNone ==
    call.fn = "get_food_by_code" =>
        LET rows == food_data.rows
            hits == {i \in 1..Len(rows) : HasCode(rows[i], call.food_code)}
        IN  /\ hits = {} => result = None
            /\ hits # {} =>
                   \E i \in hits : /\ \A j \in hits : i <= j
                                   /\ result = rows[i]
            /\ st_error = FALSE

\* two records of different content under the code asked for, neither at the
\* head of the table: the earlier one comes back
C12_Witness ==
    /\ call.fn = "get_food_by_code"
    /\ Len(food_data.rows) >= 4
    /\ HasCode(food_data.rows[3], call.food_code)
    /\ HasCode(food_data.rows[4], call.food_code)
    /\ ~HasCode(food_data.rows[1], call.food_code)
    /\ food_data.rows[3] # food_data.rows[4]
    /\ result = food_data.rows[3]

\* a code no record has, given as an int
C12_ScenarioUnknownCode ==
    /\ call.fn = "get_food_by_code"
    /\ IsNumber(call.food_code)
    /\ Len(food_data.rows) > 0
    /\ result = None

(***************************************************************************)
(* The five compute calls applied to inputs that make them fail inside:    *)
(* no table, tables without a column or with text in a numeric column, log *)
(* entries and totals with a field that is not a number.  The inputs are   *)
(* kept in sequences, values of different types not being comparable.      *)
(***************************************************************************)
\* the table with the text 'n/a' for the value of row i in the column
TextIn(df, i, column) == [df EXCEPT !.rows[i][column] = "n/a"]

DirectTables ==
    << SampleTable,
       TableOf(3, 0, 1, {}),
       TableOf(0, 0, 1, {}),
       None,
       TableOf(12, 0, 1, {"Main food description"}),
       TableOf(12, 0, 1, {"Food code"}),
       TextIn(SampleTable, 2, "Protein (g)"),
       TextIn(TableOf(12, 4, 1, {}), 12, "Iron (mg)") >>

DirectLogs ==
    << <<>>,
       << [calories |-> 500000, protein |-> 30000],
          [calories |-> 700000, protein |-> 40000] >>,
       << [calories |-> 500000, protein |-> 30000],
          [calories |-> "n/a", protein |-> 40000] >>,
       << [name |-> "Tea", sugar |-> "two lumps"],
          [calories |-> 700000, protein |-> 40000] >>,
       << [name |-> "Zinc tablet", protein |-> 40000, zinc |-> "n/a"] >> >>

DirectTotals ==
    << [protein |-> 40000],
       [calories |-> 1800000, protein |-> "n/a"],
       [calories |-> "n/a", protein |-> 40000, sodium |-> 4600000],
       [protein |-> 40000, zinc |-> "n/a"],
       [calories |-> 3000000, protein |-> 120000, sodium |-> 4600000] >>

InitDirect ==
    /\ \E t \in DOMAIN DirectTables : food_data = DirectTables[t]
    /\ \E l \in DOMAIN DirectLogs : daily_log = DirectLogs[l]
    /\ call = NoCall
    /\ result = None
    /\ st_error = FALSE
    /\ app = "main"
    /\ clock = 0
    /\ goals = default_goals

CallAnalyzeDirect ==
    \E k \in DOMAIN DirectTotals : \E custom_targets \in CustomTargets :
        /\ call' = [fn |-> "analyze_nutrition", totals |-> DirectTotals[k],
                    custom_targets |-> custom_targets]
        /\ result' = analyze_nutrition(DirectTotals[k], custom_targets)
        /\ st_error' = AnalyzeRaises(DirectTotals[k], custom_targets)
        /\ UNCHANGED <<food_data, daily_log, app, clock, goals>>

NextDirect ==
    \/ CallCalculateTotals
    \/ CallAnalyzeDirect
    \/ CallSearchFoods
    \/ CallGetFoodByCode
    \/ CallGetRecommendations

SpecDirect == InitDirect /\ [][NextDirect]_vars

(***************************************************************************)
(* Properties of the calls on such inputs                                  *)
(***************************************************************************)
\* C11: search_foods returns the empty list and reports no error for every
\* query shorter than 2 characters, the empty query included, whatever the
\* table holds (no table and a table without the description column too).
C11_ShortQueryGivesEmptyList ==
    (call.fn = "search_foods" /\ Len(call.query) < 2) =>
        /\ result = <<>>
        /\ st_error = FALSE

\* a query of one character that descriptions of the table hold
C11_Witness ==
    /\ call.fn = "search_foods"
    /\ call.query = <<"a">>
    /\ call.limit = 20
    /\ food_data # None
    /\ "Main food description" \in food_data.columns
    /\ \E i \in 1..Len(food_data.rows) :
           HoldsIgnoringCase(food_data.rows[i]["Main food description"], call.query)
    /\ result = <<>>
    /\ st_error = FALSE

\* the empty query on no table
C11_ScenarioEmptyQueryNoTable ==
    /\ call.fn = "search_foods"
    /\ call.query = <<>>
    /\ food_data = None
    /\ result = <<>>
    /\ st_error = FALSE

\* an entry of the log holds a value that is not a number in one of the ten
\* nutrient fields
BadEntryField ==
    \E i \in DOMAIN daily_log :
        \E n \in TenNutrients \cap DOMAIN daily_log[i] :
            ~IsNumber(daily_log[i][n])

\* the totals of the call hold a value that is not a number for a nutrient
\* with a non-zero target
BadTotal == \E n \in Comparable : ~IsNumber(call.totals[n])

NoColumn(column) == food_data = None \/ column \notin food_data.columns

\* the deficient nutrients of the call whose lookup fails: the column holds
\* a value that is not a number, or the table lacks the description or the
\* code column the items are built from
FailingLookups ==
    {n \in call.deficiencies \cap DOMAIN nutrient_columns :
        /\ nutrient_columns[n] \in food_data.columns
        /\ IF \E i \in 1..Len(food_data.rows) :
                  ~IsNumber(food_data.rows[i][nutrient_columns[n]])
           THEN TRUE
           ELSE /\ {"Main food description", "Food code"} \ food_data.columns # {}
                /\ CountPositive(food_data, nutrient_columns[n]) > 0}

\* the empty or default result of the four calls other than get_recommendations
\* when they fail inside
FailureGivesDefault ==
    /\ (call.fn = "calculate_totals" /\ BadEntryField) =>
           result = [n \in TenNutrients |-> 0]
    /\ (call.fn = "analyze_nutrition" /\ BadTotal) =>
           /\ DOMAIN result.deficiencies = {}
           /\ DOMAIN result.excesses = {}
           /\ DOMAIN result.within_range = {}
           /\ result.overall_score = <<0, 1>>
    /\ (call.fn = "search_foods" /\ Len(call.query) >= 2
            /\ NoColumn("Main food description")) =>
           result = <<>>
    /\ (call.fn = "get_food_by_code" /\ NoColumn("Food code")) =>
           result = None

\* C19 as stated: a compute call that fails inside returns its empty or
\* default result (all-zero totals, the empty analysis with score 0, the
\* empty list, None, the empty mapping), never a partial result.
C19_FailureGivesDefaultResult ==
    /\ FailureGivesDefault
    /\ call.fn = "get_recommendations" =>
           IF food_data = None THEN DOMAIN result = {}
           ELSE FailingLookups # {} => DOMAIN result = {}

\* C19 amended: the same for calculate_totals, analyze_nutrition,
\* search_foods and get_food_by_code; get_recommendations returns the empty
\* mapping when it has no table, and when the lookup of a nutrient fails it
\* leaves that nutrient out and still returns the list of every other
\* deficient nutrient that has a column with a food above 0.
C19_FailureGivesDefaultPerLookup ==
    /\ FailureGivesDefault
    /\ call.fn = "get_recommendations" =>
           IF food_data = None THEN DOMAIN result = {}
           ELSE /\ DOMAIN result \cap FailingLookups = {}
                /\ \A n \in (call.deficiencies \cap DOMAIN nutrient_columns)
                              \ FailingLookups :
                       (/\ nutrient_columns[n] \in food_data.columns
                        /\ CountPositive(food_data, nutrient_columns[n]) > 0)
                           => /\ n \in DOMAIN result
                              /\ result[n] # <<>>

\* the protein column holds text: the lookup for protein fails and is
\* reported, the list for iron is returned
C19_Witness ==
    /\ call.fn = "get_recommendations"
    /\ call.deficiencies = {"protein", "iron", "sugar"}
    /\ food_data # None
    /\ FailingLookups = {"protein"}
    /\ DOMAIN result = {"iron"}
    /\ st_error = TRUE

\* a log whose second entry holds text for calories: all-zero totals
C19_ScenarioTextInEntry ==
    /\ call.fn = "calculate_totals"
    /\ Len(daily_log) = 2
    /\ IsNumber(daily_log[1]["calories"])
    /\ ~IsNumber(daily_log[2]["calories"])
    /\ result["calories"] = 0
    /\ result["protein"] = 0
    /\ st_error = TRUE

(***************************************************************************)
(* DataProcessor: loading and cleaning                                     *)
(*                                                                         *)
(* A cell of the frame pd.read_csv returns is [num |-> n] for a number,    *)
(* [text |-> characters] for a str and [nan |-> TRUE] for NaN.  A file is  *)
(* [kind |-> "absent"], [kind |-> "unreadable"] (read_csv raises on it) or *)
(* [kind |-> "csv", columns |-> ..., rows |-> ...].                        *)
(***************************************************************************)
required_columns ==
    <<"Food code", "Main food description", "Energy (kcal)",
      "Protein (g)", "Carbohydrate (g)", "Total Fat (g)">>

numeric_columns ==
    <<"Energy (kcal)", "Protein (g)", "Carbohydrate (g)", "Total Fat (g)",
      "Fiber, total dietary (g)", "Sugars, total (g)", "Sodium (mg)",
      "Calcium (mg)", "Iron (mg)", "Vitamin C (mg)">>

possible_paths ==
    <<"usda_food_data.csv", "food_database.csv",
      "data/usda_food_data.csv", "data/food_database.csv">>

\* the default of csv_path
DefaultPath == "D:/SJRI/Nutrient_Values.csv"

NaN == [nan |-> TRUE]

Num(n) == [num |-> n]

Text(str) == [text |-> str]

IsNaN(cell) == "nan" \in DOMAIN cell

IsNum(cell) == "num" \in DOMAIN cell

IsDigit(c) == c \in Range(Digits)

DigitValue(c) == (CHOOSE i \in DOMAIN Digits : Digits[i] = c) - 1

\* the number a run of digits stands for
RECURSIVE DigitsValue(_)
DigitsValue(str) ==
    IF str = <<>> THEN 0
    ELSE DigitsValue(SubSeq(str, 1, Len(str) - 1)) * 10 + DigitValue(str[Len(str)])

\* the position of the first '.' of str, 0 for none
RECURSIVE DotFrom(_, _)
DotFrom(str, k) ==
    IF k > Len(str) THEN 0
    ELSE IF str[k] = "." THEN k ELSE DotFrom(str, k + 1)

\* the float a str parses to, as a cell: an optional sign, digits, an optional
\* '.' and up to three digits more; NaN under errors='coerce' for other text
ParseNumber(str) ==
    LET negative == str # <<>> /\ str[1] = "-"
        body == IF negative THEN Tail(str) ELSE str
        dot == DotFrom(body, 1)
        whole == IF dot = 0 THEN body ELSE SubSeq(body, 1, dot - 1)
        fraction == IF dot = 0 THEN <<>> ELSE SubSeq(body, dot + 1, Len(body))
        padded == fraction \o SubSeq(<<"0", "0", "0">>, 1, 3 - Len(fraction))
    IN  IF /\ Len(whole) + Len(fraction) > 0
           /\ Len(fraction) <= 3
           /\ \A i \in DOMAIN whole : IsDigit(whole[i])
           /\ \A i \in DOMAIN fraction : IsDigit(fraction[i])
        THEN Num((IF negative THEN -1 ELSE 1)
                     * (DigitsValue(whole) * 1000 + DigitsValue(padded)))
        ELSE NaN

\* pd.to_numeric(..., errors='coerce')
to_numeric(cell) ==
    IF IsNum(cell) THEN cell
    ELSE IF IsNaN(cell) THEN NaN
    ELSE ParseNumber(cell.text)

\* .fillna(0), the cell then read as the number it holds
FillNa(cell) == IF IsNaN(cell) THEN 0 ELSE cell.num

\* the characters of seq joined into one str
RECURSIVE Join(_)
Join(seq) == IF seq = <<>> THEN "" ELSE Head(seq) \o Join(Tail(seq))

\* whether read_csv gives the column the dtype float64: numbers with a NaN
\* among them
FloatColumn(df, column) ==
    /\ \E i \in DOMAIN df.rows : IsNaN(df.rows[i][column])
    /\ \A i \in DOMAIN df.rows : ~IsNaN(df.rows[i][column]) => IsNum(df.rows[i][column])

\* .astype(str) on a description: a str as it is, NaN as 'nan'
DescriptionStr(cell) ==
    IF IsNaN(cell) THEN <<"n", "a", "n">> ELSE cell.text

\* .astype(str) on a food code: an int by its digits, a float with '.0'
\* after them, NaN as 'nan'
CodeStr(df, cell) ==
    IF IsNaN(cell) THEN "nan"
    ELSE IF IsNum(cell)
    THEN (IF FloatColumn(df, "Food code") THEN IntStr(cell.num) \o ".0"
          ELSE IntStr(cell.num))
    ELSE Join(cell.text)

\* _clean_data on a frame with the required columns (lines 80-102)
_clean_data(df) ==
    LET cleaned(row) ==
            [c \in df.columns |->
                IF c \in Range(numeric_columns) THEN FillNa(to_numeric(row[c]))
                ELSE IF c = "Main food description"
                THEN Strip(DescriptionStr(row[c]))
                ELSE IF c = "Food code" THEN CodeStr(df, row[c])
                ELSE row[c]]
        rows == [i \in DOMAIN df.rows |-> cleaned(df.rows[i])]
    IN  [columns |-> df.columns,
         rows |-> SelectSeq(rows, LAMBDA row : row["Main food description"] # <<>>)]

\* None told from a str by its printed form
IsNone(v) == ToString(v) = ToString(None)

\* os.path.exists(path)
Exists(files, path) == files[path].kind # "absent"

\* lines 38-42: the first of possible_paths that exists, None for none
RECURSIVE FirstExisting(_, _)
FirstExisting(files, k) ==
    IF k > Len(possible_paths) THEN None
    ELSE IF Exists(files, possible_paths[k]) THEN possible_paths[k]
    ELSE FirstExisting(files, k + 1)

\* the path line 49 reads
PathRead(csv_path, files) ==
    IF IsNone(csv_path) THEN FirstExisting(files, 1) ELSE csv_path

\* line 52
missing_cols(df) ==
    SelectSeq(required_columns, LAMBDA col : col \notin df.columns)

\* a plausible slip: the frame returned as read when columns are missing
FallbackKeepsFrame(df) == df

\* line 55: what is returned when columns are missing
Fallback(df) == SampleTable

\* load_food_database
load_food_database(csv_path, files) ==
    LET path == PathRead(csv_path, files)
    IN  IF IsNone(path) THEN SampleTable
        ELSE IF files[path].kind # "csv" THEN SampleTable
        ELSE LET df == [columns |-> files[path].columns, rows |-> files[path].rows]
             IN  IF missing_cols(df) # <<>> THEN Fallback(df)
                 ELSE _clean_data(df)

\* whether load_food_database reported through st.error (lines 63-68)
LoadReportsError(csv_path, files) ==
    LET path == PathRead(csv_path, files)
    IN  ~IsNone(path) /\ files[path].kind # "csv"

(***************************************************************************)
(* The loader under test: load_food_database applied to paths and to the   *)
(* files found under them.                                                 *)
(***************************************************************************)
\* rows of a CSV as read: numbers, numbers written as text, text that is
\* not a number, missing values, a description with blanks around it
RawFoods ==
    << ("Food code" :> Num(41101000)) @@
        ("Main food description" :> Text(<<"L", "e", "n", "t", "i", "l", "s", ",", " ", "b", "o", "i", "l", "e", "d">>)) @@
        ("Energy (kcal)" :> Num(116000)) @@
        ("Protein (g)" :> Num(9000)) @@
        ("Carbohydrate (g)" :> Num(20000)) @@
        ("Total Fat (g)" :> Num(400)) @@
        ("Fiber, total dietary (g)" :> Num(7900)) @@
        ("Sugars, total (g)" :> Num(1800)),

       ("Food code" :> Num(53101000)) @@
        ("Main food description" :> Text(<<" ", " ", "O", "a", "t", " ", "b", "a", "r", " ">>)) @@
        ("Energy (kcal)" :> Num(190000)) @@
        ("Protein (g)" :> Text(<<"9", ".", "5">>)) @@
        ("Carbohydrate (g)" :> Num(25000)) @@
        ("Total Fat (g)" :> Num(6000)) @@
        ("Fiber, total dietary (g)" :> NaN) @@
        ("Sugars, total (g)" :> Num(1000)),

       ("Food code" :> Num(72101000)) @@
        ("Main food description" :> Text(<<"S", "p", "i", "n", "a", "c", "h", ",", " ", "f", "r", "e", "s", "h">>)) @@
        ("Energy (kcal)" :> NaN) @@
        ("Protein (g)" :> Text(<<"n", "/", "a">>)) @@
        ("Carbohydrate (g)" :> Text(<<"3", ".", "6">>)) @@
        ("Total Fat (g)" :> Num(400)) @@
        ("Fiber, total dietary (g)" :> Num(2200)) @@
        ("Sugars, total (g)" :> Text(<<"t", "r", "a", "c", "e">>)) >>

\* rows with values below zero, as a number and as text
RawNegative ==
    << ("Food code" :> Num(22311000)) @@
        ("Main food description" :> Text(<<"H", "a", "m">>)) @@
        ("Energy (kcal)" :> Num(150000)) @@
        ("Protein (g)" :> Num(15000)) @@
        ("Carbohydrate (g)" :> Num(1500)) @@
        ("Total Fat (g)" :> Num(-5500)) @@
        ("Fiber, total dietary (g)" :> Num(0)) @@
        ("Sugars, total (g)" :> Text(<<"-", "1", ".", "5">>)),

       ("Food code" :> Text(<<"A", "-", "1", "2">>)) @@
        ("Main food description" :> Text(<<"M", "i", "l", "k", ",", " ", "d", "r", "y">>)) @@
        ("Energy (kcal)" :> Num(150000)) @@
        ("Protein (g)" :> Num(8000)) @@
        ("Carbohydrate (g)" :> Num(12000)) @@
        ("Total Fat (g)" :> Num(5000)) @@
        ("Fiber, total dietary (g)" :> Num(0)) @@
        ("Sugars, total (g)" :> Num(5000)) >>

\* rows without a description, with a blank one, and without a code
RawBlank ==
    << ("Food code" :> NaN) @@
        ("Main food description" :> NaN) @@
        ("Energy (kcal)" :> Num(76000)) @@
        ("Protein (g)" :> Num(8000)) @@
        ("Carbohydrate (g)" :> Num(1900)) @@
        ("Total Fat (g)" :> Num(4800)) @@
        ("Fiber, total dietary (g)" :> Num(300)) @@
        ("Sugars, total (g)" :> Num(600)),

       ("Food code" :> Num(41420000)) @@
        ("Main food description" :> Text(<<" ", " ", " ">>)) @@
        ("Energy (kcal)" :> Num(76000)) @@
        ("Protein (g)" :> Num(8000)) @@
        ("Carbohydrate (g)" :> Num(1900)) @@
        ("Total Fat (g)" :> Num(4800)) @@
        ("Fiber, total dietary (g)" :> Num(300)) @@
        ("Sugars, total (g)" :> Num(600)),

       ("Food code" :> Num(41420001)) @@
        ("Main food description" :> Text(<<"T", "o", "f", "u", ",", " ", "f", "i", "r", "m">>)) @@
        ("Energy (kcal)" :> Num(76000)) @@
        ("Protein (g)" :> Num(8000)) @@
        ("Carbohydrate (g)" :> Num(1900)) @@
        ("Total Fat (g)" :> Num(4800)) @@
        ("Fiber, total dietary (g)" :> Num(300)) @@
        ("Sugars, total (g)" :> Num(600)) >>

RawColumns == DOMAIN RawFoods[1]

Absent == [kind |-> "absent"]

Unreadable == [kind |-> "unreadable"]

Csv(columns, rows) ==
    [kind |-> "csv", columns |-> columns,
     rows |-> [i \in DOMAIN rows |-> [c \in columns |-> rows[i][c]]]]

\* what a path may hold: nothing, a file read_csv raises on, CSVs with the
\* columns above, with none of the rows, and with one required column missing
Contents ==
    {Absent, Unreadable, Csv(RawColumns, <<>>)}
        \cup {Csv(RawColumns, rows) : rows \in {RawFoods, RawNegative, RawBlank}}
        \cup {Csv(RawColumns \ {c}, RawFoods) : c \in Range(required_columns)}

Paths == {DefaultPath} \cup Range(possible_paths)

FileSystems ==
    {[path \in Paths |->
         IF path = DefaultPath THEN a
         ELSE IF path = possible_paths[2] THEN b
         ELSE IF path = possible_paths[4] THEN c
         ELSE Absent] :
        a \in Contents, b \in Contents, c \in {Absent, Csv(RawColumns, RawNegative)}}

InitLoader ==
    /\ food_data = None
    /\ daily_log = <<>>
    /\ call = NoCall
    /\ result = None
    /\ st_error = FALSE
    /\ app = "main"
    /\ clock = 0
    /\ goals = default_goals

LoadFoodDatabase(csv_path) ==
    \E files \in FileSystems :
        /\ call' = [fn |-> "load_food_database", csv_path |-> csv_path,
                    files |-> files]
        /\ result' = load_food_database(csv_path, files)
        /\ st_error' = LoadReportsError(csv_path, files)
        /\ UNCHANGED <<food_data, daily_log, app, clock, goals>>

CallLoadFoodDatabase ==
    \/ LoadFoodDatabase(None)
    \/ \E csv_path \in {DefaultPath, possible_paths[2]} : LoadFoodDatabase(csv_path)

NextLoader == CallLoadFoodDatabase

SpecLoader == InitLoader /\ [][NextLoader]_vars

(***************************************************************************)
(* Properties of the loader                                                *)
(***************************************************************************)
\* the file the call is to read: the one under csv_path, or under the first
\* of the four usual names that exists when csv_path is None
SourceOfCall ==
    IF IsNone(call.csv_path)
    THEN LET found == {k \in DOMAIN possible_paths :
                          call.files[possible_paths[k]] # Absent}
         IN  IF found = {} THEN Absent
             ELSE call.files[possible_paths[CHOOSE k \in found :
                                               \A j \in found : k <= j]]
    ELSE call.files[call.csv_path]

RequiredSix ==
    {"Food code", "Main food description", "Energy (kcal)", "Protein (g)",
     "Carbohydrate (g)", "Total Fat (g)"}

\* C13: load_food_database does not raise and returns a table with the six
\* required columns; when the source is missing, unreadable or lacks a
\* required column, the table returned is the built-in sample table of 10 rows.
C13_LoadFallsBackToSample ==
    call.fn = "load_food_database" =>
        /\ RequiredSix \subseteq result.columns
        /\ \A i \in DOMAIN result.rows : RequiredSix \subseteq DOMAIN result.rows[i]
        /\ (\/ SourceOfCall.kind # "csv"
            \/ ~(RequiredSix \subseteq SourceOfCall.columns))
               => /\ result = SampleTable
                  /\ Len(result.rows) = 10

\* a CSV with rows and without the protein column, found under the second of
\* the usual names: the sample table comes back
C13_Witness ==
    /\ call.fn = "load_food_database"
    /\ IsNone(call.csv_path)
    /\ SourceOfCall.kind = "csv"
    /\ "Protein (g)" \notin SourceOfCall.columns
    /\ Len(SourceOfCall.rows) > 0
    /\ result = SampleTable

\* a CSV with the required columns is cleaned and returned
C13_ScenarioLoaded ==
    /\ call.fn = "load_food_database"
    /\ SourceOfCall.kind = "csv"
    /\ Len(SourceOfCall.rows) = 3
    /\ Len(result.rows) = 3
    /\ result.rows[2]["Main food description"] = <<"O", "a", "t", " ", "b", "a", "r">>
    /\ result.rows[2]["Protein (g)"] = 9500
    /\ result.rows[2]["Fiber, total dietary (g)"] = 0
    /\ result.rows[3]["Protein (g)"] = 0
    /\ result.rows[3]["Carbohydrate (g)"] = 3600
    /\ result.rows[1]["Food code"] = "41101000"

(***************************************************************************)
(* The session: DietTrackerApp and EnhancedDietTrackerApp                  *)
(***************************************************************************)
\* the column each nutrient field of a log entry is read from, in
\* DietTrackerApp.add_food_to_log
main_entry_columns ==
    [calories |-> "Energy (kcal)", protein |-> "Protein (g)",
     carbs |-> "Carbohydrate (g)", fat |-> "Total Fat (g)",
     fiber |-> "Fiber, total dietary (g)", sugar |-> "Sugars, total (g)",
     sodium |-> "Sodium (mg)", calcium |-> "Calcium (mg)",
     iron |-> "Iron (mg)", vitamin_c |-> "Vitamin C (mg)"]

\* the same in EnhancedDietTrackerApp.add_food_to_log
enhanced_entry_columns ==
    [calories |-> "Energy (kcal)", protein |-> "Protein (g)",
     carbs |-> "Carbohydrate (g)", fat |-> "Total Fat (g)",
     fiber |-> "Fibre (g)", sugar |-> "Sugars (g)", sodium |-> "Sodium (mg)"]

EntryColumns(variant) ==
    IF variant = "main" THEN main_entry_columns ELSE enhanced_entry_columns

\* food.get(column, default)
FoodGet(food, column, default) ==
    IF column \in DOMAIN food THEN food[column] ELSE default

\* value * serving_size: serving_size is a multiple of 0.1 (the step of the
\* number_input) and the values of the tables have two decimals, so the
\* division is exact
Times(value, serving_size) == (value * (serving_size \div 100)) \div 10

\* the characters of a str
Chars(str) == [i \in 1..Len(str) |-> SubSeq(str, i, i)]

\* whether float(value) raises: not for a number, nor for a str that reads
\* as one
FloatRaises(value) ==
    ~IsNumber(value) /\ IsNaN(ParseNumber(Chars(value)))

\* float(value)
Float(value) ==
    IF IsNumber(value) THEN value ELSE ParseNumber(Chars(value)).num

\* whether the value read for a nutrient makes the entry fail: float() of
\* the main app raises on text that is no number, the bare * serving_size
\* of the enhanced app (a float) on any text
ValueRaises(variant, value) ==
    IF variant = "main" THEN FloatRaises(value) ELSE ~IsNumber(value)

\* food['Main food description'] raises KeyError; float() and * raise on a
\* value as above
AddRaises(variant, food) ==
    \/ "Main food description" \notin DOMAIN food
    \/ \E k \in DOMAIN EntryColumns(variant) :
           ValueRaises(variant, FoodGet(food, EntryColumns(variant)[k], 0))

\* the dict add_food_to_log builds (main: lines 165-180, enhanced: 779-792)
log_entry(variant, food, serving_size, now) ==
    LET nutrients ==
            [k \in DOMAIN EntryColumns(variant) |->
                Times(Float(FoodGet(food, EntryColumns(variant)[k], 0)),
                      serving_size)]
        common ==
            [name |-> food["Main food description"],
             serving_size |-> serving_size,
             timestamp |-> now]
    IN  IF variant = "main"
        THEN common @@ [food_code |-> FoodGet(food, "Food code", "")] @@ nutrients
        ELSE common @@ [food_id |-> FoodGet(food, "Food code", ""),
                        category |-> FoodGet(food, "Major food group", "Other")]
                    @@ nutrients

\* a plausible slip: the entry appended as soon as it has its name, before
\* the nutrient values are worked out
add_food_to_log_appending_first(variant, log, food, serving_size, now) ==
    IF "Main food description" \notin DOMAIN food THEN log
    ELSE IF AddRaises(variant, food)
    THEN Append(log, [name |-> food["Main food description"],
                      serving_size |-> serving_size, timestamp |-> now])
    ELSE Append(log, log_entry(variant, food, serving_size, now))

\* add_food_to_log: the log afterwards
add_food_to_log(variant, log, food, serving_size, now) ==
    IF AddRaises(variant, food) THEN log
    ELSE Append(log, log_entry(variant, food, serving_size, now))

\* the keys of the totals the enhanced summary adds up (lines 812-820)
enhanced_summary_keys ==
    <<"calories", "protein", "carbs", "fat", "fiber", "sugar", "sodium">>

\* the keys of the totals the enhanced analysis adds up (lines 931-937)
enhanced_analysis_keys == <<"calories", "protein", "carbs", "fat", "fiber">>

\* sum(entry[key] for entry in st.session_state.daily_log)
RECURSIVE SumEntries(_, _)
SumEntries(log, key) ==
    IF log = <<>> THEN 0 ELSE Head(log)[key] + SumEntries(Tail(log), key)

\* a plausible slip: the sum started at the second entry of the log
SummaryTotalsFromSecond(variant, log) ==
    [k \in Range(IF variant = "main" THEN TotalKeys ELSE enhanced_summary_keys)
        |-> SumEntries(Tail(log), k)]

\* the totals of render_nutrition_summary / render_enhanced_nutrition_summary
SummaryTotals(variant, log) ==
    IF variant = "main" THEN calculate_totals(log)
    ELSE [k \in Range(enhanced_summary_keys) |-> SumEntries(log, k)]

\* the totals of render_nutrition_analysis / render_enhanced_nutrition_analysis
AnalysisTotals(variant, log) ==
    IF variant = "main" THEN calculate_totals(log)
    ELSE [k \in Range(enhanced_analysis_keys) |-> SumEntries(log, k)]

\* a plausible slip: the test of line 88 left out
LoadsAlways(table) == TRUE

\* line 88: if st.session_state.food_data is None
Loads(table) == table = None

\* a plausible slip: del daily_log[idx:] for daily_log.pop(idx)
PopFrom(log, idx) == SubSeq(log, 1, idx - 1)

\* daily_log.pop(idx), idx counted from 1 here
Pop(log, idx) == RemoveAt(log, idx)

(***************************************************************************)
(* The session under test: a table loaded from what the default path       *)
(* holds, then searches, adds, removes, clears and recomputations.         *)
(***************************************************************************)
MaxAdds == 3

\* what the default path holds: one of two files with the required columns
\* (the fall back to the sample table is the subject of SpecLoader); nothing
\* lies under the usual names
SessionFileSystems ==
    {[path \in Paths |-> IF path = DefaultPath THEN a ELSE Absent] :
        a \in {Csv(RawColumns, RawFoods), Csv(RawColumns, RawNegative)}}

\* what the user types into the search box
SessionQueries ==
    { <<"m", "i", "l", "k">>, <<"o", "a", "t">>, <<"H", "a", "m">>, <<"m">> }

\* the number_input: 0.1 to 10.0 in steps of 0.1
ServingSizes == {1000, 2500}

Init ==
    /\ food_data = None
    /\ daily_log = <<>>
    /\ call = NoCall
    /\ result = None
    /\ st_error = FALSE
    /\ app \in {"main", "enhanced"}
    /\ clock = 0
    /\ goals = default_goals

\* load_data, at the head of every run of the script
LoadData ==
    \E files \in SessionFileSystems :
        /\ food_data' = IF Loads(food_data)
                         THEN load_food_database(DefaultPath, files)
                         ELSE food_data
        /\ call' = [fn |-> "load_data"]
        /\ result' = TRUE
        /\ st_error' = (Loads(food_data) /\ LoadReportsError(DefaultPath, files))
        /\ UNCHANGED <<daily_log, app, clock, goals>>

\* render_food_search with a query typed in
Search ==
    /\ food_data # None
    /\ \E query \in SessionQueries :
           /\ call' = [fn |-> "search", query |-> query]
           /\ result' = search_foods(food_data, query, 20)
           /\ st_error' = SearchRaises(food_data, query)
    /\ UNCHANGED <<food_data, daily_log, app, clock, goals>>

\* the Add button next to one of the first ten search results
Add ==
    /\ food_data # None
    /\ clock < MaxAdds
    /\ \E query \in SessionQueries :
           LET search_results == search_foods(food_data, query, 20)
           IN  \E idx \in DOMAIN Take(search_results, 10) :
               \E serving_size \in ServingSizes :
                   LET food == search_results[idx]
                   IN  /\ daily_log' = add_food_to_log(app, daily_log, food,
                                                       serving_size, clock + 1)
                       /\ call' = [fn |-> "add", source |-> "search",
                                   food |-> food, serving_size |-> serving_size]
                       /\ st_error' = AddRaises(app, food)
    /\ result' = None
    /\ clock' = clock + 1
    /\ UNCHANGED <<food_data, app, goals>>

\* the Remove button of an entry of the log
Remove ==
    /\ food_data # None
    /\ \E idx \in DOMAIN daily_log :
           /\ daily_log' = Pop(daily_log, idx)
           /\ call' = [fn |-> "remove", idx |-> idx]
    /\ result' = None
    /\ st_error' = FALSE
    /\ UNCHANGED <<food_data, app, clock, goals>>

\* the Clear button: the log is replaced when it holds entries
Clear ==
    /\ food_data # None
    /\ daily_log' = IF daily_log # <<>> THEN <<>> ELSE daily_log
    /\ call' = [fn |-> "clear"]
    /\ result' = None
    /\ st_error' = FALSE
    /\ UNCHANGED <<food_data, app, clock, goals>>

\* the summary tab: the totals shown for a log with entries
ShowSummary ==
    /\ food_data # None
    /\ daily_log # <<>>
    /\ call' = [fn |-> "summary"]
    /\ result' = SummaryTotals(app, daily_log)
    /\ st_error' = (app = "main" /\ TotalsRaises(daily_log))
    /\ UNCHANGED <<food_data, daily_log, app, clock, goals>>

\* a plausible slip: the goals of the sliders handed on as custom targets
AnalysisTargetsFromGoals(g) ==
    [calories |-> g.calories_goal, protein |-> g.protein_goal]

\* the custom_targets of the call analyze_nutrition(totals) (main: line 265,
\* enhanced: line 999): none, whatever the goals are
AnalysisTargets(g) == None

\* the analysis tab: totals, analysis against the default targets, and the
\* recommendations for the deficiencies found
ShowAnalysis ==
    /\ food_data # None
    /\ daily_log # <<>>
    /\ LET totals == AnalysisTotals(app, daily_log)
           analysis == analyze_nutrition(totals, AnalysisTargets(goals))
           deficiencies == DOMAIN analysis.deficiencies
       IN  /\ call' = [fn |-> "analysis"]
           /\ result' = [totals |-> totals, analysis |-> analysis,
                         recommendations |->
                             IF deficiencies # {}
                             THEN get_recommendations(deficiencies, food_data)
                             ELSE <<>>]
           /\ st_error' = (\/ AnalyzeRaises(totals, AnalysisTargets(goals))
                           \/ RecommendReportsError(deficiencies, food_data))
    /\ UNCHANGED <<food_data, daily_log, app, clock, goals>>

\* the recommendations the analysis tab shows for a log
Recommendations(variant, log, df, g) ==
    LET analysis == analyze_nutrition(AnalysisTotals(variant, log),
                                      AnalysisTargets(g))
        deficiencies == DOMAIN analysis.deficiencies
    IN  IF deficiencies # {} THEN get_recommendations(deficiencies, df)
        ELSE <<>>

\* the foods shown with an Add button: the first five of each nutrient's
\* list, each with the nutrient it is recommended for
RecommendedItems(variant, log, df, g) ==
    LET recommendations == Recommendations(variant, log, df, g)
        shown == [n \in DOMAIN recommendations |-> Take(recommendations[n], 5)]
    IN  UNION {{[nutrient |-> n, food |-> shown[n][i]] : i \in DOMAIN shown[n]} :
                  n \in DOMAIN shown}

\* the Add button next to one of the first five foods recommended for a
\* nutrient: the record is looked up by its code and added as one serving
AddRecommended ==
    /\ food_data # None
    /\ daily_log # <<>>
    /\ clock < MaxAdds
    /\ \E item \in RecommendedItems(app, daily_log, food_data, goals) :
           LET full_food == get_food_by_code(food_data, item.food.food_code)
           IN  IF full_food # None
               THEN /\ daily_log' = add_food_to_log(app, daily_log,
                                                    full_food, 1000, clock + 1)
                    /\ call' = [fn |-> "add", source |-> "recommendation",
                                food |-> full_food, serving_size |-> 1000,
                                nutrient |-> item.nutrient,
                                nutrient_value |-> item.food.nutrient_value]
                    /\ st_error' = AddRaises(app, full_food)
               ELSE /\ daily_log' = daily_log
                    /\ call' = [fn |-> "get_food_by_code",
                                food_code |-> item.food.food_code]
                    /\ st_error' = CodeRaises(food_data)
    /\ result' = None
    /\ clock' = clock + 1
    /\ UNCHANGED <<food_data, app, goals>>

Next ==
    \/ LoadData
    \/ Search
    \/ Add
    \/ AddRecommended
    \/ Remove
    \/ Clear
    \/ ShowSummary
    \/ ShowAnalysis

Spec == Init /\ [][Next]_vars

(***************************************************************************)
(* Properties of the session                                               *)
(***************************************************************************)
\* the numeric nutrient values of a table, of a log entry and of totals
NonNegativeTable(df) ==
    \A i \in DOMAIN df.rows :
        \A c \in Range(numeric_columns) \cap df.columns : df.rows[i][c] >= 0

NonNegativeEntry(entry) ==
    \A k \in DOMAIN main_entry_columns \cap DOMAIN entry : entry[k] >= 0

NonNegativeTotals(totals) == \A k \in DOMAIN totals : totals[k] >= 0

\* C14: every numeric nutrient value is non-negative in every reachable
\* state: in the loaded and cleaned table, in every entry of the log, and in
\* the totals shown after any sequence of add, remove and clear.
C14_NutrientValuesNonNegative ==
    /\ food_data # None => NonNegativeTable(food_data)
    /\ \A i \in DOMAIN daily_log : NonNegativeEntry(daily_log[i])
    /\ call.fn = "summary" => NonNegativeTotals(result)

\* the case that breaks C14: a summary whose total fat is below zero, of a
\* log holding a food the file gives a negative fat value
C14_ScenarioNegativeTotal ==
    /\ call.fn = "summary"
    /\ daily_log # <<>>
    /\ result.fat < 0

\* C15: adding a food with serving multiplier s creates a log entry in which
\* every nutrient value the entry carries equals the value of the food
\* record's column for that nutrient times s, in both variants of the app.
C15_EntryIsRecordTimesServing ==
    (call.fn = "add" /\ ~st_error) =>
        /\ daily_log # <<>>
        /\ LET entry == daily_log[Len(daily_log)]
           IN  \A k \in DOMAIN main_entry_columns \cap DOMAIN entry :
                   entry[k] = Times(FoodGet(call.food, main_entry_columns[k], 0),
                                    call.serving_size)

\* the case that breaks C15: the enhanced app adds a food with sugar and
\* the entry carries none
C15_ScenarioEnhancedSugarLost ==
    /\ app = "enhanced"
    /\ call.fn = "add"
    /\ ~st_error
    /\ call.food["Sugars, total (g)"] > 0
    /\ daily_log[Len(daily_log)].sugar = 0

\* the other variant: the main app adds a food with sugar and fiber and the
\* entry carries both, times the serving
C15_ScenarioMainSugarKept ==
    /\ app = "main"
    /\ call.fn = "add"
    /\ ~st_error
    /\ call.serving_size = 2500
    /\ call.food["Sugars, total (g)"] > 0
    /\ daily_log[Len(daily_log)].sugar
           = Times(call.food["Sugars, total (g)"], 2500)

\* C16: log entries are never mutated. A step changes the log only by
\* appending one new entry at the end (add), by deleting exactly the entry at
\* the chosen index, the others keeping their order (remove), or by emptying
\* it (clear); every entry present before and after a step has the same
\* field values.
C16_LogOnlyAppendsRemovesClears ==
    [][ /\ (call'.fn = "add" /\ ~st_error') =>
              /\ Len(daily_log') = Len(daily_log) + 1
              /\ SubSeq(daily_log', 1, Len(daily_log)) = daily_log
        /\ call'.fn = "remove" =>
              /\ call'.idx \in DOMAIN daily_log
              /\ daily_log' = RemoveAt(daily_log, call'.idx)
        /\ call'.fn = "clear" => daily_log' = <<>>
        /\ (call'.fn \notin {"add", "remove", "clear"} \/ st_error') =>
              daily_log' = daily_log
      ]_vars

\* the middle entry of three was removed: the first and the third are left,
\* in that order
C16_Witness ==
    /\ call.fn = "remove"
    /\ call.idx = 2
    /\ Len(daily_log) = 2
    /\ daily_log[1].timestamp = 1
    /\ daily_log[2].timestamp = 3

\* the sum of a sequence of numbers
RECURSIVE FoldSum(_)
FoldSum(values) ==
    IF values = <<>> THEN 0
    ELSE FoldSum(SubSeq(values, 1, Len(values) - 1)) + values[Len(values)]

\* C17: totals hold no incremental state. After any sequence of add, remove
\* and clear, the totals computed for display are the field-wise sum over
\* exactly the entries now in the log.
C17_TotalsAreSumOfCurrentLog ==
    /\ call.fn = "summary" =>
           \A k \in DOMAIN result :
               result[k] = FoldSum([i \in DOMAIN daily_log |-> daily_log[i][k]])
    /\ call.fn = "analysis" =>
           \A k \in DOMAIN result.totals :
               result.totals[k]
                   = FoldSum([i \in DOMAIN daily_log |-> daily_log[i][k]])

\* three foods were added, two of them left the log again, and the summary
\* shows the energy of the one entry left
C17_Witness ==
    /\ call.fn = "summary"
    /\ clock = 3
    /\ Len(daily_log) = 1
    /\ result.calories = daily_log[1].calories
    /\ result.calories > 0

\* C18: the food table is loaded at most once per session and is read-only
\* afterwards: once food_data is set, no later step (load_data again,
\* search, recommend, add, remove, clear) changes it.
C18_TableLoadedOnce ==
    [][food_data # None => food_data' = food_data]_vars

\* load_data ran again in a session that already added a food
C18_Witness ==
    /\ call.fn = "load_data"
    /\ food_data # None
    /\ daily_log # <<>>

(***************************************************************************)
(* Further properties of the accessor, the analyzer and the recommender    *)
(***************************************************************************)
\* C24: search_foods returns the empty list whenever the query, after
\* trimming the whitespace around it, has fewer than 2 characters; a query of
\* two spaces, or of one letter and a space, returns no records.
C24_TrimmedShortQueryGivesEmptyList ==
    (call.fn = "search_foods" /\ Len(Strip(call.query)) < 2) => result = <<>>

\* the case that breaks C24: two spaces pass the length test of line 152,
\* are stripped to the empty string, and every description contains it
C24_ScenarioBlankQueryMatchesAll ==
    /\ call.fn = "search_foods"
    /\ call.query = <<" ", " ">>
    /\ call.limit = 20
    /\ Len(food_data.rows) > 0
    /\ result = Take(food_data.rows, 20)

\* C25: sugar is a maximum-recommended nutrient like sodium: with the default
\* targets and ranges, a sugar total below its target (0 included) is never
\* classified as a deficiency by analyze_nutrition.
C25_LowSugarIsNoDeficiency ==
    ( /\ call.fn = "analyze_nutrition"
      /\ call.custom_targets = None
      /\ "sugar" \in DOMAIN call.totals
      /\ call.totals["sugar"] < daily_targets["sugar"] )
        => "sugar" \notin DOMAIN result.deficiencies

\* the case that breaks C25: no sugar eaten, and sugar is listed as a
\* deficiency at 0 % of its target
C25_ScenarioNoSugarIsDeficiency ==
    /\ call.fn = "analyze_nutrition"
    /\ call.custom_targets = None
    /\ "sugar" \in DOMAIN call.totals
    /\ call.totals["sugar"] = 0
    /\ "sugar" \in DOMAIN result.deficiencies
    /\ result.deficiencies["sugar"].percentage = Zero

\* the totals of the call are not below zero and the targets they are
\* compared against are above zero
NonNegativeAgainstPositive ==
    \A n \in DOMAIN call.totals \cap DOMAIN CallTargets :
        call.totals[n] >= 0 /\ CallTargets[n] > 0

\* C26: for non-negative totals and positive targets the overall score lies
\* between 0 and 100 inclusive; it is 100 exactly when at least one nutrient
\* was classified and every classified nutrient is within range; it is 0
\* when no nutrient was classified.
C26_ScoreWithinBoundsFullIffAllInRange ==
    (call.fn = "analyze_nutrition" /\ NonNegativeAgainstPositive) =>
        /\ ~FracLess(result.overall_score, Zero)
        /\ ~FracLess(FracInt(100), result.overall_score)
        /\ (result.overall_score = FracInt(100))
               <=> ( /\ Classified # {}
                     /\ DOMAIN result.deficiencies = {}
                     /\ DOMAIN result.excesses = {} )
        /\ Classified = {} => result.overall_score = Zero

\* one nutrient classified, within range at 80 % of its target: the score is
\* 100
C26_Witness ==
    /\ call.fn = "analyze_nutrition"
    /\ NonNegativeAgainstPositive
    /\ Classified = {"protein"}
    /\ call.totals["protein"] < CallTargets["protein"]
    /\ DOMAIN result.within_range = {"protein"}
    /\ result.overall_score = FracInt(100)

\* a deficiency and an excess next to nutrients within range: the score is
\* strictly between 0 and 100
C26_ScenarioMixed ==
    /\ call.fn = "analyze_nutrition"
    /\ NonNegativeAgainstPositive
    /\ DOMAIN result.deficiencies # {}
    /\ DOMAIN result.excesses # {}
    /\ DOMAIN result.within_range # {}
    /\ FracLess(Zero, result.overall_score)
    /\ FracLess(result.overall_score, FracInt(100))

\* no nutrient of the totals has a target: nothing is classified, the score
\* is 0
C26_ScenarioNothingClassified ==
    /\ call.fn = "analyze_nutrition"
    /\ NonNegativeAgainstPositive
    /\ DOMAIN call.totals # {}
    /\ Classified = {}
    /\ result.overall_score = Zero

\* the deduplication rule, said of the candidates (ranked index labels) and
\* of the labels selected from them: up to the point where limit items are
\* selected, a candidate is left out exactly when at least limit/2 items are
\* selected so far and it shares a leading keyword with one of them
FollowsDedupRule(df, candidates, selected, limit) ==
    LET lead == [i \in 1..Len(df.rows) |->
                    Range(LeadingKeywords(df.rows[i]["Main food description"]))]
        before(k) == {candidates[j] : j \in 1..(k - 1)} \cap Range(selected)
        seen(k) == UNION {lead[i] : i \in before(k)}
    IN  /\ Range(selected) \subseteq Range(candidates)
        /\ Len(selected) <= limit
        /\ \A k \in DOMAIN candidates :
               Cardinality(before(k)) < limit =>
                   ( candidates[k] \notin Range(selected)
                       <=> ( /\ Cardinality(before(k)) >= limit \div 2
                             /\ lead[candidates[k]] \cap seen(k) # {} ) )

\* an item returned after limit/2 others shares no leading keyword with any
\* item returned before it
LateItemsShareNoKeyword(items, limit) ==
    \A k \in DOMAIN items :
        k > limit \div 2 =>
            \A j \in 1..(k - 1) :
                Range(LeadingKeywords(items[k].name))
                    \cap Range(LeadingKeywords(items[j].name)) = {}

\* C22: scanning the candidates in ranked order, _deduplicate_foods skips a
\* candidate exactly when at least limit/2 items are already selected and one
\* of its first two keywords is among the first two keywords of a selected
\* item; hence a returned item at position limit/2 or later shares no
\* leading keyword with any item returned before it.
C22_SkipsSimilarAfterHalf ==
    call.fn = "get_recommendations" =>
        \A n \in DOMAIN result :
            LET column == nutrient_columns[n]
                candidates == NLargest(food_data, PositiveRows(food_data, column),
                                       RecommendLimit * 2, column)
            IN  /\ FollowsDedupRule(food_data, candidates,
                                    RichRows(food_data, column, RecommendLimit),
                                    RecommendLimit)
                /\ LateItemsShareNoKeyword(result[n], RecommendLimit)

\* a list longer than limit/2 from a table where a candidate was skipped
\* before the list was full
C22_Witness ==
    /\ call.fn = "get_recommendations"
    /\ "protein" \in DOMAIN result
    /\ Len(result["protein"]) > RecommendLimit \div 2
    /\ Len(result["protein"]) < RecommendLimit
    /\ Len(result["protein"])
           < Len(PositiveRows(food_data, nutrient_columns["protein"]))

(***************************************************************************)
(* Further properties of the loader                                        *)
(***************************************************************************)
\* the rows of the source whose description is neither missing nor blank
Described(rows) ==
    SelectSeq(rows, LAMBDA row :
        /\ ~IsNaN(row["Main food description"])
        /\ Strip(row["Main food description"].text) # <<>>)

\* C30: after _clean_data the table holds no record whose description is
\* missing or empty: every source row with a missing (null) or blank
\* description is removed, and all other rows are kept in their order.
C30_NoMissingOrBlankDescription ==
    ( /\ call.fn = "load_food_database"
      /\ SourceOfCall.kind = "csv"
      /\ RequiredSix \subseteq SourceOfCall.columns )
        => LET kept == Described(SourceOfCall.rows)
           IN  /\ \A i \in DOMAIN result.rows :
                      result.rows[i]["Main food description"] # <<>>
               /\ Len(result.rows) = Len(kept)
               /\ \A i \in DOMAIN result.rows :
                      result.rows[i]["Main food description"]
                          = Strip(kept[i]["Main food description"].text)

\* the case that breaks C30: of a row without a description, a row with a
\* blank one and a third row, the first stays in the table, described "nan"
C30_ScenarioMissingDescriptionKept ==
    /\ call.fn = "load_food_database"
    /\ SourceOfCall.kind = "csv"
    /\ RequiredSix \subseteq SourceOfCall.columns
    /\ Len(SourceOfCall.rows) = 3
    /\ IsNaN(SourceOfCall.rows[1]["Main food description"])
    /\ Len(result.rows) = 2
    /\ result.rows[1]["Main food description"] = <<"n", "a", "n">>
    /\ result.rows[1]["Food code"] = "nan"

(***************************************************************************)
(* Further properties of the session                                       *)
(***************************************************************************)
\* C23: in both variants, Add on a food recommended for a deficient nutrient
\* N (re-fetched by its code, logged with serving 1.0) appends an entry whose
\* value for N is the recommended item's nutrient_value, so that the daily
\* total of N strictly increases.
C23_RecommendedAddRaisesTotal ==
    [][ (call'.fn = "add" /\ call'.source = "recommendation") =>
            /\ Len(daily_log') = Len(daily_log) + 1
            /\ daily_log'[Len(daily_log')][call'.nutrient] = call'.nutrient_value
            /\ SumEntries(daily_log', call'.nutrient)
                   > SumEntries(daily_log, call'.nutrient)
      ]_vars

\* the case that breaks C23: the enhanced app adds a food recommended for
\* fiber and the entry carries no fiber
C23_ScenarioEnhancedFiberNotRaised ==
    /\ app = "enhanced"
    /\ call.fn = "add"
    /\ call.source = "recommendation"
    /\ call.nutrient = "fiber"
    /\ call.nutrient_value > 0
    /\ daily_log[Len(daily_log)].fiber = 0

\* the main app adds a food recommended for fiber and the entry carries the
\* recommended amount
C23_ScenarioMainFiberRaised ==
    /\ app = "main"
    /\ call.fn = "add"
    /\ call.source = "recommendation"
    /\ call.nutrient = "fiber"
    /\ call.nutrient_value > 0
    /\ daily_log[Len(daily_log)].fiber = call.nutrient_value

(***************************************************************************)
(* add_food_to_log under test: called with food records a table may not    *)
(* hold, in both variants of the app.                                      *)
(***************************************************************************)
\* food records: rows of the sample table; a row with a number written as
\* text; rows with text that is no number, in a column both variants read
\* and in one only the main app reads; a row without a description; a row
\* with the required columns only; a row with a comma and a double quote in
\* its description
DirectFoods ==
    << RowOf(sample_data, 1),
       RowOf(sample_data, 3),
       [RowOf(sample_data, 2) EXCEPT !["Protein (g)"] = "9.5"],
       [RowOf(sample_data, 2) EXCEPT !["Total Fat (g)"] = "n/a"],
       [RowOf(sample_data, 4) EXCEPT !["Iron (mg)"] = "n/a"],
       [c \in AllColumns \ {"Main food description"} |-> sample_data[c][5]],
       [c \in Range(required_columns) |-> sample_data[c][6]],
       [RowOf(sample_data, 1) EXCEPT !["Main food description"] =
           <<"P", "i", "z", "z", "a", ",", " ", "1", "4", "\"", " ", "t", "h", "i", "n">>] >>

InitAdd ==
    /\ food_data = None
    /\ daily_log = <<>>
    /\ call = NoCall
    /\ result = None
    /\ st_error = FALSE
    /\ app \in {"main", "enhanced"}
    /\ clock = 0
    /\ goals = default_goals

\* add_food_to_log called with one of the records of DirectFoods at the
\* positions given
AddFoodToLogOf(positions) ==
    /\ clock < MaxAdds
    /\ \E k \in positions : \E serving_size \in ServingSizes :
           /\ daily_log' = add_food_to_log(app, daily_log, DirectFoods[k],
                                           serving_size, clock + 1)
           /\ call' = [fn |-> "add_food_to_log", food |-> k,
                       serving_size |-> serving_size]
           /\ st_error' = AddRaises(app, DirectFoods[k])
    /\ result' = None
    /\ clock' = clock + 1
    /\ UNCHANGED <<food_data, app, goals>>

CallAddFoodToLog == AddFoodToLogOf(DOMAIN DirectFoods)

NextAdd == CallAddFoodToLog

SpecAdd == InitAdd /\ [][NextAdd]_vars

\* the record has no description, or holds under a column the variant reads
\* a value that cannot be turned into a number (by float() in the main app;
\* the enhanced app multiplies the value as it is)
Unbuildable(variant, food) ==
    \/ "Main food description" \notin DOMAIN food
    \/ \E c \in Range(EntryColumns(variant)) \cap DOMAIN food :
           IF variant = "main" THEN FloatRaises(food[c]) ELSE ~IsNumber(food[c])

\* C29: a failed add leaves the log unchanged. If add_food_to_log cannot
\* build the entry (no description field, a nutrient value that cannot be
\* converted to a number), it reports the error instead of raising it, and
\* the log afterwards is the log before: no entry appended, none changed.
C29_FailedAddLeavesLog ==
    [][ call'.fn = "add_food_to_log" =>
            /\ Unbuildable(app, DirectFoods[call'.food]) =>
                   (st_error' /\ daily_log' = daily_log)
            /\ st_error' => daily_log' = daily_log
            /\ ~st_error' =>
                   /\ Len(daily_log') = Len(daily_log) + 1
                   /\ SubSeq(daily_log', 1, Len(daily_log)) = daily_log
      ]_vars

\* two entries in the log, then an add of a record with text for a fat value:
\* reported, and the two entries are all the log holds
C29_Witness ==
    /\ call.fn = "add_food_to_log"
    /\ call.food = 4
    /\ st_error
    /\ clock = 3
    /\ Len(daily_log) = 2
    /\ daily_log[1].timestamp = 1
    /\ daily_log[2].timestamp = 2

\* a record without a description, first thing: reported, the log stays empty
C29_ScenarioNoDescription ==
    /\ call.fn = "add_food_to_log"
    /\ call.food = 6
    /\ st_error
    /\ daily_log = <<>>

\* a number written as text: the main app converts it and logs the food,
\* the enhanced app fails on it
C29_ScenarioNumberAsText ==
    /\ call.fn = "add_food_to_log"
    /\ call.food = 3
    /\ call.serving_size = 1000
    /\ IF app = "main"
       THEN ~st_error /\ daily_log[Len(daily_log)].protein = 9500
       ELSE st_error

(***************************************************************************)
(* The session with its goal sliders: the sidebar stores calories_goal and *)
(* protein_goal in the session state, the analysis tab analyses the log.   *)
(***************************************************************************)
\* positions both apps' sliders can be put at: the lowest and the default
CalorieGoals == {1200000, 2000000}

ProteinGoals == {50000, 150000}

\* the two goal sliders of the sidebar, moved and stored
SetGoals ==
    \E calories_goal \in CalorieGoals, protein_goal \in ProteinGoals :
        /\ goals' = [calories_goal |-> calories_goal,
                     protein_goal |-> protein_goal]
        /\ goals' # goals
        /\ call' = [fn |-> "set_goals"]
        /\ UNCHANGED <<food_data, daily_log, result, st_error, app, clock>>

NextGoals ==
    \/ SetGoals
    \/ LoadData
    \/ Add
    \/ ShowAnalysis

SpecGoals == Init /\ [][NextGoals]_vars

\* C28: whatever the goal sliders are set to, the analysis tab reports each
\* nutrient against its built-in daily target and files it as a deficiency
\* or an excess by that target alone: the result is fixed by the log
C28_AnalysisIgnoresGoals ==
    call.fn = "analysis" =>
        \A n \in DOMAIN result.totals \cap DOMAIN daily_targets :
            LET current == result.totals[n]
                target == daily_targets[n]
                analysis == result.analysis
                filed == DOMAIN analysis.deficiencies
                             \cup DOMAIN analysis.excesses
                             \cup DOMAIN analysis.within_range
            IN  /\ n \in filed
                /\ n \in DOMAIN analysis.deficiencies
                       <=> PctBelow(current, target, RangeOf(n).min)
                /\ n \in DOMAIN analysis.excesses
                       <=> ( /\ ~PctBelow(current, target, RangeOf(n).min)
                             /\ ~RangeOf(n).inf
                             /\ PctAbove(current, target, RangeOf(n).max) )
                /\ \A b \in {"deficiencies", "excesses", "within_range"} :
                       n \in DOMAIN analysis[b] => analysis[b][n].target = target

\* an analysis with the protein goal at 50 g: measured against the goal the
\* protein eaten would not be too little, against the built-in 150 g it is
C28_Witness ==
    /\ call.fn = "analysis"
    /\ goals.protein_goal = 50000
    /\ goals.calories_goal = 1200000
    /\ ~PctBelow(result.totals["protein"], goals.protein_goal,
                 RangeOf("protein").min)
    /\ "protein" \in DOMAIN result.analysis.deficiencies
    /\ "calories" \in DOMAIN result.analysis.deficiencies

(***************************************************************************)
(* get_nutrient_goals_progress and _get_goal_status, and the analyzer      *)
(* called for the progress towards the goals.                              *)
(***************************************************************************)
\* p <= q
FracLeq(p, q) == ~FracLess(q, p)

\* lines 302-330: the label for a percentage of the goal
get_goal_status(percentage, nutrient) ==
    IF nutrient \in {"sodium", "sugar"}
    THEN IF FracLeq(percentage, FracInt(50)) THEN "excellent"
         ELSE IF FracLeq(percentage, FracInt(75)) THEN "good"
         ELSE IF FracLeq(percentage, FracInt(100)) THEN "caution"
         ELSE "exceeded"
    ELSE IF FracLeq(FracInt(100), percentage) THEN "achieved"
         ELSE IF FracLeq(FracInt(80), percentage) THEN "close"
         ELSE IF FracLeq(FracInt(50), percentage) THEN "moderate"
         ELSE "low"

\* line 285: min((current_value / target_value) * 100, 100) if
\* target_value > 0 else 0
ProgressPercentage(current_value, target_value) ==
    IF target_value > 0
    THEN FracMin(Percentage(current_value, target_value), FracInt(100))
    ELSE Zero

\* lines 285 and 291 raise TypeError on a total that is not a number; lines
\* 298-300 catch it
GoalsProgressRaises(totals, custom_targets) ==
    LET targets == TargetsFor(custom_targets)
    IN  \E n \in DOMAIN totals \cap DOMAIN targets : ~IsNumber(totals[n])

\* line 291: max(0, target_value - current_value)
Remaining(current_value, target_value) ==
    IF 0 < target_value - current_value THEN target_value - current_value
    ELSE 0

\* lines 266-300
get_nutrient_goals_progress(totals, custom_targets) ==
    LET targets == TargetsFor(custom_targets)
        percentage(n) == ProgressPercentage(totals[n], targets[n])
    IN  IF GoalsProgressRaises(totals, custom_targets) THEN <<>>
        ELSE [n \in DOMAIN totals \cap DOMAIN targets |->
                 [current |-> totals[n],
                  target |-> targets[n],
                  percentage |-> percentage(n),
                  remaining |-> Remaining(totals[n], targets[n]),
                  unit |-> AnalyzerUnit(n),
                  status |-> get_goal_status(percentage(n), n)]]

\* totals above a limit, at it and below it, and a total below zero
ProgressTotals ==
    { [sugar |-> 60000, sodium |-> 1000000, protein |-> 160000],
      [sugar |-> 50000, sodium |-> 1725000, fat |-> -5500],
      [sugar |-> 20000, calories |-> 1700000, iron |-> 9000] }

CallGoalsProgress ==
    \E totals \in {calculate_totals(daily_log)} \cup PartialTotals
                      \cup ProgressTotals :
    \E custom_targets \in CustomTargets :
        /\ call' = [fn |-> "get_nutrient_goals_progress", totals |-> totals,
                    custom_targets |-> custom_targets]
        /\ result' = get_nutrient_goals_progress(totals, custom_targets)
        /\ st_error' = GoalsProgressRaises(totals, custom_targets)
        /\ UNCHANGED <<food_data, daily_log, app, clock, goals>>

NextProgress == CallCalculateTotals \/ CallGoalsProgress

SpecProgress == InitAnalyzer /\ [][NextProgress]_vars

\* C27: the progress record of sodium or sugar has status "exceeded" exactly
\* when the current value is above a positive target; every record has a
\* percentage between 0 and 100 and remaining = max(0, target - current)
C27_ExceededIffAboveTarget ==
    call.fn = "get_nutrient_goals_progress" =>
        \A n \in DOMAIN result :
            LET r == result[n]
            IN  /\ n \in {"sodium", "sugar"} =>
                       (r.status = "exceeded"
                            <=> (r.target > 0 /\ r.current > r.target))
                /\ FracLeq(Zero, r.percentage)
                /\ FracLeq(r.percentage, FracInt(100))
                /\ r.remaining = (IF r.target - r.current > 0
                                  THEN r.target - r.current ELSE 0)

\* the case that breaks C27: twice the sodium limit, reported as "caution"
\* at 100 %
C27_ScenarioTwiceTheLimitIsCaution ==
    /\ call.fn = "get_nutrient_goals_progress"
    /\ call.custom_targets = None
    /\ "sodium" \in DOMAIN result
    /\ result["sodium"].current = 4600000
    /\ result["sodium"].target = 2300000
    /\ result["sodium"].percentage = FracInt(100)
    /\ result["sodium"].status = "caution"
    /\ result["sodium"].remaining = 0

\* no call ever reports "exceeded": the percentage is capped at 100 before
\* the status is looked up
C27_NeverExceeded ==
    call.fn = "get_nutrient_goals_progress" =>
        \A n \in DOMAIN result : result[n].status # "exceeded"

\* the rest of C27 as the code has it: remaining is max(0, target - current)
\* and the percentage is at most 100, and at least 0 for totals not below 0
C27_PercentageAndRemaining ==
    call.fn = "get_nutrient_goals_progress" =>
        \A n \in DOMAIN result :
            LET r == result[n]
            IN  /\ FracLeq(r.percentage, FracInt(100))
                /\ r.current >= 0 => FracLeq(Zero, r.percentage)
                /\ r.remaining = (IF r.target - r.current > 0
                                  THEN r.target - r.current ELSE 0)

(***************************************************************************)
(* Export of the log: pd.DataFrame(daily_log).to_csv(index=False), the     *)
(* text a str of characters, and the text read back as a table.            *)
(***************************************************************************)
\* the keys of an entry in the order add_food_to_log writes them, which is
\* the order of the columns of pd.DataFrame(daily_log)
main_export_columns ==
    <<"name", "serving_size", "timestamp", "food_code", "calories", "protein",
      "carbs", "fat", "fiber", "sugar", "sodium", "calcium", "iron",
      "vitamin_c">>

enhanced_export_columns ==
    <<"name", "serving_size", "calories", "protein", "carbs", "fat", "fiber",
      "sugar", "sodium", "timestamp", "food_id", "category">>

ExportColumns(variant) ==
    IF variant = "main" THEN main_export_columns ELSE enhanced_export_columns

\* the digits after the point, without zeros at the end: at least one
FractionDigits(thousandths) ==
    LET three == <<Digits[(thousandths \div 100) + 1],
                   Digits[((thousandths \div 10) % 10) + 1],
                   Digits[(thousandths % 10) + 1]>>
    IN  IF thousandths % 10 # 0 THEN three
        ELSE IF thousandths % 100 # 0 THEN SubSeq(three, 1, 2)
        ELSE SubSeq(three, 1, 1)

\* repr of a float, as to_csv writes it: 116.0, 9.5, 8.325, -5.5
FormatFloat(value) ==
    LET magnitude == IF value < 0 THEN -value ELSE value
    IN  (IF value < 0 THEN <<"-">> ELSE <<>>)
            \o Chars(IntStr(magnitude \div 1000)) \o <<".">>
            \o FractionDigits(magnitude % 1000)

\* str of a datetime: YYYY-MM-DD HH:MM:SS, the tick of the clock as seconds
FormatTimestamp(now) ==
    Chars("2025-01-01 00:00:") \o Chars(IntStr(now \div 10))
        \o Chars(IntStr(now % 10))

\* the text of one value of an entry
CellText(column, value) ==
    IF column = "name" THEN value
    ELSE IF column = "timestamp" THEN FormatTimestamp(value)
    ELSE IF column \in {"food_code", "food_id", "category"} THEN Chars(Str(value))
    ELSE FormatFloat(value)

Quote == "\""

\* every double quote of the text written twice
RECURSIVE DoubleQuotes(_)
DoubleQuotes(text) ==
    IF text = <<>> THEN <<>>
    ELSE (IF Head(text) = Quote THEN <<Quote, Quote>> ELSE <<Head(text)>>)
             \o DoubleQuotes(Tail(text))

\* a plausible slip: the fields written as they are, joined by commas
CsvFieldUnquoted(text) == text

\* csv.QUOTE_MINIMAL, the default of to_csv: a field holding the delimiter,
\* the quote character or a line end is put in quotes, its quotes doubled
CsvField(text) ==
    IF Range(text) \cap {",", Quote, "\n", "\r"} # {}
    THEN <<Quote>> \o DoubleQuotes(text) \o <<Quote>>
    ELSE text

\* the fields of one line with commas between them and a line end after
RECURSIVE CsvLine(_)
CsvLine(fields) ==
    IF Len(fields) = 1 THEN Head(fields) \o <<"\n">>
    ELSE Head(fields) \o <<",">> \o CsvLine(Tail(fields))

RECURSIVE CsvLines(_, _)
CsvLines(columns, log) ==
    IF log = <<>> THEN <<>>
    ELSE CsvLine([k \in DOMAIN columns |->
                     CsvField(CellText(columns[k], Head(log)[columns[k]]))])
             \o CsvLines(columns, Tail(log))

\* pd.DataFrame(log).to_csv(index=False) for a log that is not empty: the
\* line of the column names, then a line for every entry
to_csv(variant, log) ==
    LET columns == ExportColumns(variant)
    IN  CsvLine([k \in DOMAIN columns |-> CsvField(Chars(columns[k]))])
            \o CsvLines(columns, log)

\* the export of the sidebar (main: lines 564-574, enhanced: 737-748)
Export ==
    /\ daily_log # <<>>
    /\ call' = [fn |-> "export"]
    /\ result' = to_csv(app, daily_log)
    /\ st_error' = FALSE
    /\ UNCHANGED <<food_data, daily_log, app, clock, goals>>

\* the records the exported logs are built from: descriptions with a comma,
\* with a comma and a double quote, and a number held as text
ExportFoods == {1, 3, 8}

AddForExport == AddFoodToLogOf(ExportFoods)

NextExport == AddForExport \/ Export

SpecExport == InitAdd /\ [][NextExport]_vars

(***************************************************************************)
(* The exported text read back: the tokenizer of a CSV reader with the     *)
(* dialect to_csv writes (comma, double quote, doubled quotes inside       *)
(* quotes), the first record naming the columns.                           *)
(***************************************************************************)
\* the first position from k on that holds a comma or a line end
RECURSIVE FieldEnd(_, _)
FieldEnd(text, k) ==
    IF k > Len(text) \/ text[k] \in {",", "\n"} THEN k
    ELSE FieldEnd(text, k + 1)

\* the position of the quote that closes a quoted field, looked for from k
\* on: the first quote that is not the first of a doubled pair
RECURSIVE ClosingQuote(_, _)
ClosingQuote(text, k) ==
    IF k > Len(text) THEN k
    ELSE IF text[k] # Quote THEN ClosingQuote(text, k + 1)
    ELSE IF k < Len(text) /\ text[k + 1] = Quote THEN ClosingQuote(text, k + 2)
    ELSE k

\* every doubled quote of the text read as one
RECURSIVE SingleQuotes(_)
SingleQuotes(text) ==
    IF text = <<>> THEN <<>>
    ELSE IF Head(text) = Quote /\ Len(text) > 1 /\ text[2] = Quote
    THEN <<Quote>> \o SingleQuotes(Tail(Tail(text)))
    ELSE <<Head(text)>> \o SingleQuotes(Tail(text))

\* the field that starts at position k: its content and the position of the
\* comma or line end after it.  A quote opens a quoted field only as the
\* first character of the field; anywhere else it is a character like others
FieldAt(text, k) ==
    IF k <= Len(text) /\ text[k] = Quote
    THEN LET close == ClosingQuote(text, k + 1)
             end == FieldEnd(text, close + 1)
         IN  [content |-> SingleQuotes(SubSeq(text, k + 1, close - 1))
                              \o SubSeq(text, close + 1, end - 1),
              end |-> end]
    ELSE LET end == FieldEnd(text, k)
         IN  [content |-> SubSeq(text, k, end - 1), end |-> end]

\* the records of the text from position k on, record being the fields of
\* the line read so far
RECURSIVE RecordsFrom(_, _, _)
RecordsFrom(text, k, record) ==
    IF k > Len(text) THEN (IF record = <<>> THEN <<>> ELSE <<record>>)
    ELSE LET field == FieldAt(text, k)
             fields == Append(record, field.content)
         IN  IF field.end > Len(text) THEN <<fields>>
             ELSE IF text[field.end] = ","
             THEN RecordsFrom(text, field.end + 1, fields)
             ELSE <<fields>> \o RecordsFrom(text, field.end + 1, <<>>)

\* the table read from the text: the first record names the columns, a
\* record with fewer fields is filled up with empty ones; a record with
\* more fields than there are columns does not fit the table (None)
read_csv(text) ==
    LET records == RecordsFrom(text, 1, <<>>)
        header == Head(records)
        fill(record) == [k \in DOMAIN header |->
                            IF k <= Len(record) THEN record[k] ELSE <<>>]
    IN  IF records = <<>> THEN None
        ELSE IF \E i \in 2..Len(records) : Len(records[i]) > Len(header)
        THEN None
        ELSE [columns |-> header,
              rows |-> [i \in 1..(Len(records) - 1) |-> fill(records[i + 1])]]

\* the fields of a column of the table, as cells: a number or NaN
ColumnCells(table, column) ==
    LET k == CHOOSE j \in DOMAIN table.columns : table.columns[j] = Chars(column)
    IN  [i \in DOMAIN table.rows |-> ParseNumber(table.rows[i][k])]

RECURSIVE SumCells(_)
SumCells(cells) ==
    IF cells = <<>> THEN 0
    ELSE (IF IsNum(Head(cells)) THEN Head(cells).num ELSE 0)
             + SumCells(Tail(cells))

\* C21: the exported text of a log that is not empty, read back as a table,
\* has one row for every entry of the log, and every nutrient column holds
\* numbers that add up to the sum of the nutrient over the log
C21_ExportRoundTrip ==
    call.fn = "export" =>
        LET table == read_csv(result)
        IN  /\ table # None
            /\ Len(table.rows) = Len(daily_log)
            /\ \A n \in DOMAIN EntryColumns(app) :
                   LET cells == ColumnCells(table, n)
                   IN  /\ \A i \in DOMAIN cells : IsNum(cells[i])
                       /\ SumCells(cells) = SumEntries(daily_log, n)

\* an export of three entries, one with a comma and a double quote in its
\* name, which the text holds in quotes with the quote doubled
C21_Witness ==
    /\ call.fn = "export"
    /\ Len(daily_log) = 3
    /\ \E i \in DOMAIN daily_log : Quote \in Range(daily_log[i].name)
    /\ \E i \in DOMAIN daily_log : daily_log[i].serving_size = 2500
    /\ \E k \in 1..(Len(result) - 1) : result[k] = Quote /\ result[k + 1] = Quote
    /\ SumEntries(daily_log, "protein") > 0

====
